---- MODULE Spec2Model ----
(***************************************************************************)
(* A model of the factorio-server instance lifecycle engine.               *)
(*                                                                         *)
(*   SpecCache    the single-flight artifact cache (src/src/cache.rs):     *)
(*                get_factorio / get_mod called by several tasks of a      *)
(*                multi-threaded executor, one step per synchronous        *)
(*                stretch of code between two points where another thread  *)
(*                can run.                                                 *)
(*   SpecCompose  the composer and its pidfile precondition                *)
(*                (Instance::prepare, Manager::prepare_instance,           *)
(*                Instance::check_running) against the instance directory. *)
(*   SpecInstance one supervised run (Instance::start, the tailer, the     *)
(*                status driver, kill / stop / send_command).              *)
(***************************************************************************)
EXTENDS Integers, Sequences, FiniteSets, TLC

VARIABLES
    \* ---- cache.rs ----
    disk,        \* destination path -> "absent" | "partial" | "complete"
    in_flight,   \* Cache::in_flight, a set of [path, chan] entries
    rx,          \* caller -> its broadcast Receiver (when it is a follower)
    pc,          \* caller -> position in get_factorio / get_mod
    tgt,         \* caller -> destination path of its call
    res,         \* caller -> result of the call ("none" until it is known)
    ret_disk,    \* caller -> what the destination was when the call returned
    role,        \* caller -> "none" | "fast" | "follower" | "leader"
    fetch_of,    \* caller -> the leader whose fetch it met (0: none)
    downloads,   \* caller -> whether its call started a network download
    before,      \* caller -> the downloading calls that had returned when
                 \*           it began to run
    sent,        \* caller -> messages it sent on its notifier
    got,         \* caller -> messages it received from a notifier
    \* ---- the instance directory instances/<name> ----
    idir,        \* whether the instance directory exists
    pidfile,     \* factorio.pid: whether it exists and the PID written in
                 \*   it (0 while it holds no bytes yet)
    alive,       \* the PIDs of the OS process table that were spawned here
    spawned,     \* number of children spawned so far (the next PID)
    prepared,    \* whether a prepared Instance value is waiting for start()
    st,          \* position of the start() in progress
    last_prepare,\* what the last prepare met and returned
    last_check,  \* what the last check_running met and returned
    \* ---- one supervised run: instance.rs, factorio_tracker.rs ----
    proc,        \* the child: "none" | "starting" | "ingame" | "quitting"
                 \*   | "closing" | "dead"
    pidf,        \* factorio.pid of the run: "none" | "empty" | "pid"
    log,         \* factorio-current.log, a sequence of complete lines
    others,      \* number of other lines the child has logged
    file_pos,    \* FactorioTracker::file_pos, in lines
    last_size,   \* FactorioTracker::last_size, in lines
    tpc,         \* position of the tailer task
    chan,        \* the broadcast channel of log lines, tailer -> driver
    lagged,      \* the channel overwrote a line the driver had not received
    dpc,         \* the status driver task: "none" | "run" | "done" | "failed"
    status,      \* the value held by the watch channel
    spc,         \* position of start()
    op,          \* the external call in progress: [name, pc]
    opres,       \* result of the last external call that returned
    last_call,   \* the method that call was, and whether the child was dead
    nops,        \* number of external calls made
    oskills,     \* number of OS kills sent to the child
    rcons,       \* number of RCON connections opened
    cleanups,    \* number of cleanup() runs
    emitted,     \* every line the tailer has sent, in order
    session,     \* how often the log has been started anew, counted from 1
    \* ---- the credential manager: credentials.rs ----
    save_file,   \* the file at CredentialManager::save_file
    credentials, \* CredentialManager::credentials
    cred_res,    \* result of the last load() or save()
    cred_op,     \* the last method called
    \* ---- Version: version.rs ----
    vsrc,        \* the Version a round trip starts from, << >> if a string
    vstr,        \* the string given to from_str, a sequence of characters
    vver,        \* what from_str returned
    vout,        \* what fmt wrote for the parsed Version
    vpc,         \* "format_first" | "parse" | "format" | "done"
    \* ---- composing one instance directory: instance.rs, manager.rs ----
    psettings,   \* the InstanceSettings every composition is given
    pdir,        \* instances/<name>: its links and mods/mod-list.json
    plast,       \* the last composition: who, what it found, how it ended
    pfirst,      \* the directory the first successful composition left
    \* ---- one file of the data store and its generations: data.rs ----
    rbase,       \* files/<instance>/<file>: "absent" | "empty" | a content
    rdir,        \* the generations <file>.k, each "absent" or a content
    rpc,         \* "idle" | "rotated": get_and_rotate_file has just returned
    rpre,        \* base and generations as that call found them
    \* ---- the tailer on the bytes of an append-only log ----
    bytes,       \* factorio-current.log, a sequence of bytes
    byte_pos,    \* FactorioTracker::file_pos, in bytes
    byte_size,   \* FactorioTracker::last_size, in bytes
    bpc,         \* position of the tailer task
    sent_lines,  \* every String given to sender.send, in order
    \* ---- the backup of an instance's files: manager.rs ----
    ifiles,      \* the backed-up kinds of file present in the instance dir
    backup_last, \* the last backup: what it found, moved and returned
    \* ---- Cache::delete_version ----
    del_last     \* the last delete_version: what it found and returned

cacheVars == <<disk, in_flight, rx, pc, tgt, res, ret_disk, role, fetch_of,
               downloads, before, sent, got>>

compVars == <<idir, pidfile, alive, spawned, prepared, st, last_prepare,
              last_check>>

instVars == <<proc, pidf, log, others, file_pos, last_size, tpc, chan, lagged,
              dpc, status, spc, op, opres, last_call, nops, oskills, rcons,
              cleanups, emitted>>

rotVars == <<rbase, rdir, rpc, rpre>>

tailVars == <<session>>

credVars == <<save_file, credentials, cred_res, cred_op>>

verVars == <<vsrc, vstr, vver, vout, vpc>>

prepVars == <<psettings, pdir, plast, pfirst>>

byteVars == <<bytes, byte_pos, byte_size, bpc, sent_lines>>

backupVars == <<ifiles, backup_last>>

delVars == <<del_last>>

notCache ==
    <<compVars, instVars, rotVars, tailVars, credVars, verVars,
      prepVars, byteVars, backupVars, delVars>>

notComp ==
    <<cacheVars, instVars, rotVars, tailVars, credVars, verVars,
      prepVars, byteVars, backupVars, delVars>>

notInst ==
    <<cacheVars, compVars, rotVars, tailVars, credVars, verVars,
      prepVars, byteVars, backupVars, delVars>>

notRot ==
    <<cacheVars, compVars, instVars, tailVars, credVars, verVars,
      prepVars, byteVars, backupVars, delVars>>

notCred ==
    <<cacheVars, compVars, instVars, rotVars, tailVars, verVars,
      prepVars, byteVars, backupVars, delVars>>

notVer ==
    <<cacheVars, compVars, instVars, rotVars, tailVars, credVars,
      prepVars, byteVars, backupVars, delVars>>

notPrep ==
    <<cacheVars, compVars, instVars, rotVars, tailVars, credVars, verVars,
      byteVars, backupVars, delVars>>

notTail ==
    <<cacheVars, compVars, rotVars, credVars, verVars,
      prepVars, byteVars, backupVars, delVars>>

notByte ==
    <<cacheVars, compVars, instVars, rotVars, tailVars, credVars, verVars,
      prepVars, backupVars, delVars>>

notBackup ==
    <<cacheVars, compVars, instVars, rotVars, tailVars, credVars, verVars,
      prepVars, byteVars, delVars>>

notDelete ==
    <<compVars, instVars, rotVars, tailVars, credVars, verVars, prepVars,
      byteVars, backupVars>>

vars ==
    <<cacheVars, compVars, instVars, rotVars, tailVars, credVars, verVars,
      prepVars, byteVars, backupVars, delVars>>

-----------------------------------------------------------------------------
(* Bounds *)

NCallers == 2

MaxSpawns == 3

MaxOps == 2

MaxOther == 1

MaxLines == 2

MaxSessions == 2

MaxParts == 4

MaxMods == 2

MaxBytes == 4

Callers == 1..NCallers

(***************************************************************************)
(* The two destinations of the cache: the engine directory                 *)
(* factorio/<version> and the mod archive mods/<n>/<v>/<n>_<v>.zip.        *)
(***************************************************************************)
Paths == {"engine", "mod"}

Kind(p) == IF p = "engine" THEN "dir" ELSE "file"

Errors == {"IoError", "NetError", "RemoveError", "NotAllowed", "RecvError",
           "InFlightError"}

-----------------------------------------------------------------------------
(* Path::exists *)
Exists(d) == d # "absent"

(***************************************************************************)
(* std::fs::remove_dir_all(path) as called in the map_err closures: it     *)
(* removes a directory tree; on a path that does not exist it fails        *)
(* (NotFound), and on a path that is a regular file it fails (ENOTDIR on   *)
(* the deletion root) and leaves the file in place.                        *)
(***************************************************************************)
RemoveDirAll(kind, d) ==
    IF d = "absent" THEN [ok |-> FALSE, disk |-> d]
    ELSE IF kind = "dir" THEN [ok |-> TRUE, disk |-> "absent"]
    ELSE [ok |-> FALSE, disk |-> d]

(* the map_err closure: the removal error replaces the original error *)
MapErr(kind, d, err) ==
    LET r == RemoveDirAll(kind, d)
    IN  [err |-> IF r.ok THEN err ELSE "RemoveError", disk |-> r.disk]

(* the InFlight entry of path p, as a set (empty: vacant) *)
EntryOf(m, p) == {e \in m : e.path = p}

LeaderOf(m, p) == IF EntryOf(m, p) = {} THEN 0
                  ELSE (CHOOSE e \in EntryOf(m, p) : TRUE).chan

(* Drop for SenderGuard without the removal: the guard leaks its entry *)
SenderGuardDrop_Leak(m, p) == m

(* Drop for SenderGuard: self.in_flight.remove(&self.path) *)
SenderGuardDrop(m, p) == {e \in m : e.path # p}

(* a Sender that outlives its guard: no receiver is ever closed *)
CloseChan_Open(r, c) == r

(***************************************************************************)
(* The last Sender of channel c is dropped: every receiver of it is        *)
(* closed (a buffered message is still delivered first).                   *)
(***************************************************************************)
CloseChan(r, c) ==
    [f \in Callers |-> IF r[f].chan = c THEN [r[f] EXCEPT !.closed = TRUE]
                       ELSE r[f]]

(* Sender::send(()): every receiver subscribed at this moment gets it *)
SendChan(r, c) ==
    [f \in Callers |-> IF r[f].chan = c /\ ~r[f].closed
                       THEN [r[f] EXCEPT !.msgs = @ + 1]
                       ELSE r[f]]

NoRx == [chan |-> 0, msgs |-> 0, closed |-> FALSE]

-----------------------------------------------------------------------------
CacheInit ==
    /\ disk = [p \in Paths |-> "absent"]
    /\ in_flight = {}
    /\ rx = [c \in Callers |-> NoRx]
    /\ pc = [c \in Callers |-> "start"]
    \* callers are interchangeable: the engine's callers come first
    /\ tgt \in {t \in [Callers -> Paths] :
                   \A i, j \in Callers :
                       (i < j /\ t[j] = "engine") => t[i] = "engine"}
    /\ res = [c \in Callers |-> "none"]
    /\ ret_disk = [c \in Callers |-> "none"]
    /\ role = [c \in Callers |-> "none"]
    /\ fetch_of = [c \in Callers |-> 0]
    /\ downloads = [c \in Callers |-> FALSE]
    /\ before = [c \in Callers |-> {}]
    /\ sent = [c \in Callers |-> 0]
    /\ got = [c \in Callers |-> 0]

(* the call of c returns r: the destination's state is recorded *)
Return(c, r, d) ==
    /\ res' = [res EXCEPT ![c] = r]
    /\ ret_disk' = [ret_disk EXCEPT ![c] = d]
    /\ pc' = [pc EXCEPT ![c] = "done"]

(* the leader's guard goes out of scope *)
GuardDropped(c) ==
    /\ in_flight' = SenderGuardDrop(in_flight, tgt[c])
    /\ rx' = CloseChan(rx, c)

(* if path.exists() { return Ok(path); } *)
GetFastPath(c) ==
    /\ pc[c] = "start"
    /\ UNCHANGED notCache
    /\ IF Exists(disk[tgt[c]])
       THEN /\ Return(c, "Ok", disk[tgt[c]])
            /\ role' = [role EXCEPT ![c] = "fast"]
            /\ fetch_of' = [fetch_of EXCEPT ![c] = LeaderOf(in_flight, tgt[c])]
       ELSE /\ pc' = [pc EXCEPT ![c] = "lookup"]
            /\ UNCHANGED <<res, ret_disk, role, fetch_of>>
    /\ before' = [before EXCEPT ![c] =
                      {d \in Callers : pc[d] = "done" /\ downloads[d]}]
    /\ UNCHANGED <<disk, in_flight, rx, tgt, downloads, sent, got>>

(* check_inflight: the DashMap entry is taken under the shard lock *)
CheckInflight(c) ==
    /\ pc[c] = "lookup"
    /\ UNCHANGED notCache
    /\ IF EntryOf(in_flight, tgt[c]) # {}
       THEN /\ rx' = [rx EXCEPT ![c] =
                        [chan |-> LeaderOf(in_flight, tgt[c]), msgs |-> 0,
                         closed |-> FALSE]]
            /\ role' = [role EXCEPT ![c] = "follower"]
            /\ fetch_of' = [fetch_of EXCEPT ![c] = LeaderOf(in_flight, tgt[c])]
            /\ pc' = [pc EXCEPT ![c] = "recv"]
            /\ UNCHANGED in_flight
       ELSE /\ in_flight' = in_flight \cup {[path |-> tgt[c], chan |-> c]}
            /\ role' = [role EXCEPT ![c] = "leader"]
            /\ pc' = [pc EXCEPT ![c] = "lead"]
            /\ UNCHANGED <<rx, fetch_of>>
    /\ UNCHANGED <<disk, tgt, res, ret_disk, downloads, before, sent, got>>

(* receiver.recv().await? *)
FollowerRecv(c) ==
    /\ pc[c] = "recv"
    /\ UNCHANGED notCache
    /\ \/ /\ rx[c].msgs > 0
          /\ rx' = [rx EXCEPT ![c].msgs = @ - 1]
          /\ got' = [got EXCEPT ![c] = @ + 1]
          /\ pc' = [pc EXCEPT ![c] = "recheck"]
          /\ UNCHANGED <<res, ret_disk>>
       \/ /\ rx[c].msgs = 0
          /\ rx[c].closed
          /\ Return(c, "RecvError", disk[tgt[c]])
          /\ UNCHANGED <<rx, got>>
    /\ UNCHANGED <<disk, in_flight, tgt, role, fetch_of, downloads, before, sent>>

(* if path.exists() { Ok(path) } else { Err(InFlightError) } *)
FollowerRecheck(c) ==
    /\ pc[c] = "recheck"
    /\ UNCHANGED notCache
    /\ Return(c, IF Exists(disk[tgt[c]]) THEN "Ok" ELSE "InFlightError",
              disk[tgt[c]])
    /\ UNCHANGED <<disk, in_flight, rx, tgt, role, fetch_of, downloads, before, sent, got>>

-----------------------------------------------------------------------------
(* The leader of get_factorio (Either::Right), Linux download_factorio *)

(* create_dir_all(&path).await? *)
EngineCreateDir(c) ==
    /\ pc[c] = "lead"
    /\ UNCHANGED notCache
    /\ tgt[c] = "engine"
    /\ \/ /\ disk' = [disk EXCEPT !["engine"] =
                        IF @ = "absent" THEN "partial" ELSE @]
          /\ pc' = [pc EXCEPT ![c] = "request"]
          /\ UNCHANGED <<in_flight, rx, res, ret_disk>>
       \/ /\ Return(c, "IoError", disk["engine"])
          /\ GuardDropped(c)
          /\ UNCHANGED disk
    /\ UNCHANGED <<tgt, role, fetch_of, downloads, before, sent, got>>

(* self.client.get(..).send().await?.error_for_status()? *)
EngineRequest(c) ==
    /\ pc[c] = "request"
    /\ UNCHANGED notCache
    /\ tgt[c] = "engine"
    /\ downloads' = [downloads EXCEPT ![c] = TRUE]
    /\ UNCHANGED before
    /\ \/ /\ disk' = [disk EXCEPT !["engine"] = "partial"]
          /\ pc' = [pc EXCEPT ![c] = "unpack"]
          /\ UNCHANGED res
       \/ LET m == MapErr("dir", disk["engine"], "NetError")
          IN  /\ disk' = [disk EXCEPT !["engine"] = m.disk]
              /\ res' = [res EXCEPT ![c] = m.err]
              /\ pc' = [pc EXCEPT ![c] = "ret_err"]
    /\ UNCHANGED <<in_flight, rx, tgt, ret_disk, role, fetch_of, sent, got>>

(* archive.unpack(&path) and the flattening of the wrapper directory *)
EngineUnpack(c) ==
    /\ pc[c] = "unpack"
    /\ UNCHANGED notCache
    /\ \/ /\ disk' = [disk EXCEPT !["engine"] = "complete"]
          /\ pc' = [pc EXCEPT ![c] = "notify"]
          /\ UNCHANGED res
       \/ LET m == MapErr("dir", disk["engine"], "IoError")
          IN  /\ disk' = [disk EXCEPT !["engine"] = m.disk]
              /\ res' = [res EXCEPT ![c] = m.err]
              /\ pc' = [pc EXCEPT ![c] = "ret_err"]
    /\ UNCHANGED <<in_flight, rx, tgt, ret_disk, role, fetch_of, downloads, before,
                   sent, got>>

-----------------------------------------------------------------------------
(* The leader of get_mod (Either::Right) and download_mod *)

(* has_token, mod_short(name).await?, the release lookup *)
ModPrecheck(c) ==
    /\ pc[c] = "lead"
    /\ UNCHANGED notCache
    /\ tgt[c] = "mod"
    /\ \/ /\ pc' = [pc EXCEPT ![c] = "request"]
          /\ UNCHANGED <<in_flight, rx, res, ret_disk>>
       \/ /\ \E e \in {"NotAllowed", "NetError"} :
                Return(c, e, disk["mod"])
          /\ GuardDropped(c)
    /\ UNCHANGED <<disk, tgt, role, fetch_of, downloads, before, sent, got>>

(* download_mod: create the parent, send the request, File::create(path) *)
ModRequest(c) ==
    /\ pc[c] = "request"
    /\ UNCHANGED notCache
    /\ tgt[c] = "mod"
    /\ downloads' = [downloads EXCEPT ![c] = TRUE]
    /\ UNCHANGED before
    /\ \/ /\ disk' = [disk EXCEPT !["mod"] = "partial"]
          /\ pc' = [pc EXCEPT ![c] = "stream"]
          /\ UNCHANGED res
       \/ LET m == MapErr("file", disk["mod"], "NetError")
          IN  /\ disk' = [disk EXCEPT !["mod"] = m.disk]
              /\ res' = [res EXCEPT ![c] = m.err]
              /\ pc' = [pc EXCEPT ![c] = "ret_err"]
    /\ UNCHANGED <<in_flight, rx, tgt, ret_disk, role, fetch_of, sent, got>>

(* the chunk loop of download_mod: file.write_all(&chunk).await? *)
ModStream(c) ==
    /\ pc[c] = "stream"
    /\ UNCHANGED notCache
    /\ \/ /\ disk' = [disk EXCEPT !["mod"] = "complete"]
          /\ pc' = [pc EXCEPT ![c] = "notify"]
          /\ UNCHANGED res
       \/ LET m == MapErr("file", disk["mod"], "NetError")
          IN  /\ disk' = [disk EXCEPT !["mod"] = m.disk]
              /\ res' = [res EXCEPT ![c] = m.err]
              /\ pc' = [pc EXCEPT ![c] = "ret_err"]
    /\ UNCHANGED <<in_flight, rx, tgt, ret_disk, role, fetch_of, downloads, before,
                   sent, got>>

-----------------------------------------------------------------------------
(* sender_guard.sender.send(()).ok() *)
LeaderNotify(c) ==
    /\ pc[c] = "notify"
    /\ UNCHANGED notCache
    /\ rx' = SendChan(rx, c)
    /\ sent' = [sent EXCEPT ![c] = @ + 1]
    /\ pc' = [pc EXCEPT ![c] = "ret_ok"]
    /\ UNCHANGED <<disk, in_flight, tgt, res, ret_disk, role, fetch_of,
                   downloads, before, got>>

(* Ok(path): the guard is dropped as the function returns *)
LeaderReturnOk(c) ==
    /\ pc[c] = "ret_ok"
    /\ UNCHANGED notCache
    /\ Return(c, "Ok", disk[tgt[c]])
    /\ GuardDropped(c)
    /\ UNCHANGED <<disk, tgt, role, fetch_of, downloads, before, sent, got>>

(* the ? after map_err: the guard is dropped as the error is returned *)
LeaderReturnErr(c) ==
    /\ pc[c] = "ret_err"
    /\ UNCHANGED notCache
    /\ Return(c, res[c], disk[tgt[c]])
    /\ GuardDropped(c)
    /\ UNCHANGED <<disk, tgt, role, fetch_of, downloads, before, sent, got>>

(***************************************************************************)
(* The future of the call is dropped at one of its await points: the       *)
(* follower's recv, the leader's create_dir_all, request and transfer.     *)
(***************************************************************************)
AwaitPcs == {"recv", "lead", "request", "unpack", "stream"}

LeaderPcs == {"lead", "request", "unpack", "stream", "notify", "ret_ok",
              "ret_err"}

CancelGet(c) ==
    /\ pc[c] \in AwaitPcs
    /\ UNCHANGED notCache
    /\ Return(c, "Cancelled", disk[tgt[c]])
    /\ IF role[c] = "leader"
       THEN GuardDropped(c)
       ELSE UNCHANGED <<in_flight, rx>>
    /\ UNCHANGED <<disk, tgt, role, fetch_of, downloads, before, sent, got>>

CacheNext ==
    \E c \in Callers :
        \/ GetFastPath(c)
        \/ CheckInflight(c)
        \/ FollowerRecv(c)
        \/ FollowerRecheck(c)
        \/ EngineCreateDir(c)
        \/ EngineRequest(c)
        \/ EngineUnpack(c)
        \/ ModPrecheck(c)
        \/ ModRequest(c)
        \/ ModStream(c)
        \/ LeaderNotify(c)
        \/ LeaderReturnOk(c)
        \/ LeaderReturnErr(c)
        \/ CancelGet(c)

(* the cache when no call is made *)
CacheIdle == CacheInit /\ tgt = [c \in Callers |-> "engine"]

-----------------------------------------------------------------------------
(* The instance directory: Instance::prepare, Manager::prepare_instance,   *)
(* Instance::check_running, Instance::start, and the end of a child.       *)

Pids == 1..MaxSpawns

NoPidFile == [exists |-> FALSE, pid |-> 0]

(* File::create: the file exists and holds no bytes *)
EmptyPidFile == [exists |-> TRUE, pid |-> 0]

PidFileOf(p) == [exists |-> TRUE, pid |-> p]

(* sysinfo: system.process(pid).is_some(), for the PID in the pidfile *)
PidLive(pf, procs) == pf.exists /\ pf.pid \in procs

(***************************************************************************)
(* Instance::check_running(instance_path): the result for an instance      *)
(* directory that exists or not (dir), the pidfile's content (pf) and the  *)
(* OS process table (procs).                                               *)
(***************************************************************************)
CheckRunning(dir, pf, procs) ==
    IF ~dir THEN "AlreadyRunning"
    ELSE IF ~pf.exists THEN "AlreadyRunning"
    ELSE IF pf = EmptyPidFile THEN "ParseIntError"
    ELSE IF PidLive(pf, procs) THEN "AlreadyRunning"
    ELSE "Ok"

NoStart == [pc |-> "idle", pid |-> 0]

ComposeInit ==
    /\ idir = FALSE
    /\ pidfile = NoPidFile
    /\ alive = {}
    /\ spawned = 0
    /\ prepared = FALSE
    /\ st = NoStart
    /\ last_prepare = [live |-> FALSE, result |-> "none", removed |-> FALSE]
    /\ last_check = [dir |-> FALSE, pf |-> NoPidFile, live |-> FALSE,
                     result |-> "none"]

(* a live supervised child: factorio.pid present and its PID live *)
LiveChild == idir /\ PidLive(pidfile, alive)

(***************************************************************************)
(* Instance::prepare: the directory is removed when it exists and built    *)
(* again; a later step (a link, a mod fetch, the mod list) may fail and    *)
(* leave the new directory behind.                                         *)
(***************************************************************************)
InstancePrepare ==
    /\ UNCHANGED notComp
    /\ \E r \in {"Ok", "IoError"} :
          /\ last_prepare' = [live |-> LiveChild, result |-> r,
                              removed |-> idir]
          /\ prepared' = (prepared \/ r = "Ok")
    /\ idir' = TRUE
    /\ pidfile' = NoPidFile
    /\ UNCHANGED <<alive, spawned, st, last_check>>

(***************************************************************************)
(* Manager::prepare_instance: remove_dir_all(&factorio_path).await? fails  *)
(* when the directory does not exist; otherwise as Instance::prepare.      *)
(***************************************************************************)
ManagerPrepareInstance ==
    /\ UNCHANGED notComp
    /\ IF ~idir
       THEN /\ last_prepare' = [live |-> FALSE, result |-> "IoError",
                                removed |-> FALSE]
            /\ UNCHANGED <<idir, pidfile, alive, spawned, prepared, st,
                           last_check>>
       ELSE /\ \E r \in {"Ok", "IoError"} :
                  /\ last_prepare' = [live |-> LiveChild, result |-> r,
                                      removed |-> TRUE]
                  /\ prepared' = (prepared \/ r = "Ok")
            /\ idir' = TRUE
            /\ pidfile' = NoPidFile
            /\ UNCHANGED <<alive, spawned, st, last_check>>

(* an external caller asks check_running *)
CheckRunningCall ==
    /\ UNCHANGED notComp
    /\ last_check' = [dir |-> idir, pf |-> pidfile,
                      live |-> PidLive(pidfile, alive),
                      result |-> CheckRunning(idir, pidfile, alive)]
    /\ UNCHANGED <<idir, pidfile, alive, spawned, prepared, st, last_prepare>>

(* Instance::start: command.spawn()? in the instance directory *)
StartSpawn ==
    /\ UNCHANGED notComp
    /\ prepared
    /\ st.pc = "idle"
    /\ idir
    /\ spawned < MaxSpawns
    /\ spawned' = spawned + 1
    /\ alive' = alive \cup {spawned + 1}
    /\ st' = [pc |-> "spawned", pid |-> spawned + 1]
    /\ prepared' = FALSE
    /\ UNCHANGED <<idir, pidfile, last_prepare, last_check>>

(***************************************************************************)
(* File::create(pid_path).await?: the pidfile is created empty; when the   *)
(* directory is gone the error drops the Child, which kill_on_drop kills.  *)
(***************************************************************************)
StartCreatePid ==
    /\ UNCHANGED notComp
    /\ st.pc = "spawned"
    /\ IF idir
       THEN /\ pidfile' = EmptyPidFile
            /\ st' = [st EXCEPT !.pc = "created"]
            /\ UNCHANGED alive
       ELSE /\ alive' = alive \ {st.pid}
            /\ st' = NoStart
            /\ UNCHANGED pidfile
    /\ UNCHANGED <<idir, spawned, prepared, last_prepare, last_check>>

(* pid_file.write_all(pid.to_string().as_bytes()).await? *)
StartWritePid ==
    /\ UNCHANGED notComp
    /\ st.pc = "created"
    /\ pidfile' = IF idir /\ pidfile.exists THEN PidFileOf(st.pid)
                  ELSE pidfile
    /\ st' = NoStart
    /\ UNCHANGED <<idir, alive, spawned, prepared, last_prepare, last_check>>

(***************************************************************************)
(* The child p ends: it crashes, exits, or RunningInstance::kill / stop    *)
(* ends it.  factorio.pid is not among the files cleanup() hands to the    *)
(* rotation, and nothing else removes it: the pidfile stays.               *)
(***************************************************************************)
ChildExit(p) ==
    /\ UNCHANGED notComp
    /\ p \in alive
    /\ alive' = alive \ {p}
    /\ UNCHANGED <<idir, pidfile, spawned, prepared, st, last_prepare,
                   last_check>>

ComposeNext ==
    \/ InstancePrepare
    \/ ManagerPrepareInstance
    \/ CheckRunningCall
    \/ StartSpawn
    \/ StartCreatePid
    \/ StartWritePid
    \/ \E p \in Pids : ChildExit(p)

(* the instance directory when nothing is prepared or started *)
ComposeIdle == ComposeInit

-----------------------------------------------------------------------------
(* One supervised run: Instance::start on a prepared instance, the child,  *)
(* FactorioTracker::watch (the tailer), the status driver, and the         *)
(* external calls kill / stop / send_command of one client.                *)

Status == {"Stopped", "Starting", "Running", "Stopping", "Closed"}

(* the lines the status driver tells apart *)
InGameLine == "changing state from(CreatingGame) to(InGame)"

ClosedLine == "changing state from(Disconnected) to(Closed)"

Sentinel == "factorio process stopped"

OtherLine == "other"

(* channel::<String>(32) *)
LogChanCap == 32

ProcAlive(p) == p \in {"starting", "ingame", "quitting", "closing"}

NoOp == [name |-> "none", pc |-> "none"]

NoCall == [name |-> "none", crashed |-> FALSE]

InstanceInit ==
    /\ proc = "none"
    /\ pidf = "none"
    /\ log = << >>
    /\ others = 0
    /\ file_pos = 0
    /\ last_size = 0
    /\ tpc = "stat"
    /\ chan = << >>
    /\ lagged = FALSE
    /\ dpc = "none"
    /\ status = "Stopped"
    /\ spc = "spawn"
    /\ op = NoOp
    /\ opres = "none"
    /\ last_call = NoCall
    /\ nops = 0
    /\ oskills = 0
    /\ rcons = 0
    /\ cleanups = 0
    /\ emitted = << >>

(* ---- Instance::start ---- *)

(* command.spawn()? *)
RunSpawn ==
    /\ spc = "spawn"
    /\ UNCHANGED notInst
    /\ \/ proc' = "starting" /\ spc' = "create"
       \/ spc' = "failed" /\ UNCHANGED proc
    /\ UNCHANGED <<pidf, log, others, file_pos, last_size, tpc, chan, lagged, dpc,
                   status, op, opres, last_call, nops, oskills, rcons, cleanups,
                   emitted>>

(* File::create(pid_path).await? *)
RunCreatePid ==
    /\ spc = "create"
    /\ UNCHANGED notInst
    /\ pidf' = "empty"
    /\ spc' = "write"
    /\ UNCHANGED <<proc, log, others, file_pos, last_size, tpc, chan, lagged, dpc,
                   status, op, opres, last_call, nops, oskills, rcons, cleanups,
                   emitted>>

(***************************************************************************)
(* pid_file.write_all(..).await?, then the watch channel is made with      *)
(* Status::default() and the status driver is spawned.                     *)
(* a start() that publishes Starting as the first status *)
RunWritePid_Starting ==
    /\ spc = "write"
    /\ UNCHANGED notInst
    /\ pidf' = "pid"
    /\ status' = "Starting"
    /\ dpc' = "run"
    /\ spc' = "done"
    /\ UNCHANGED <<proc, log, others, file_pos, last_size, tpc, chan, lagged, op,
                   opres, last_call, nops, oskills, rcons, cleanups,
                   emitted>>

(***************************************************************************)
RunWritePid ==
    /\ spc = "write"
    /\ UNCHANGED notInst
    /\ pidf' = "pid"
    /\ status' = "Stopped"
    /\ dpc' = "run"
    /\ spc' = "done"
    /\ UNCHANGED <<proc, log, others, file_pos, last_size, tpc, chan, lagged, op,
                   opres, last_call, nops, oskills, rcons, cleanups,
                   emitted>>

(* ---- the child process ---- *)

ChildLogInGame ==
    /\ proc = "starting"
    /\ UNCHANGED notInst
    /\ log' = Append(log, InGameLine)
    /\ proc' = "ingame"
    /\ UNCHANGED <<pidf, others, file_pos, last_size, tpc, chan, lagged, dpc, status,
                   spc, op, opres, last_call, nops, oskills, rcons, cleanups,
                   emitted>>

ChildLogOther ==
    /\ ProcAlive(proc)
    /\ UNCHANGED notInst
    /\ others < MaxOther
    /\ others' = others + 1
    /\ log' = Append(log, OtherLine)
    /\ UNCHANGED <<proc, pidf, file_pos, last_size, tpc, chan, lagged, dpc, status,
                   spc, op, opres, last_call, nops, oskills, rcons, cleanups,
                   emitted>>

(* after /quit the child logs the Closed line ... *)
ChildLogClosed ==
    /\ proc = "quitting"
    /\ UNCHANGED notInst
    /\ log' = Append(log, ClosedLine)
    /\ proc' = "closing"
    /\ UNCHANGED <<pidf, others, file_pos, last_size, tpc, chan, lagged, dpc, status,
                   spc, op, opres, last_call, nops, oskills, rcons, cleanups,
                   emitted>>

(* ... and exits; or it crashes at any time *)
ChildEnd ==
    /\ ProcAlive(proc)
    /\ UNCHANGED notInst
    /\ proc' = "dead"
    /\ UNCHANGED <<pidf, log, others, file_pos, last_size, tpc, chan, lagged, dpc,
                   status, spc, op, opres, last_call, nops, oskills, rcons, cleanups,
                   emitted>>

(* ---- FactorioTracker::watch ---- *)

(* the Receiver is gone, with start() or with the driver: send fails *)
NoReceiver == spc = "failed" \/ dpc \in {"done", "failed"}

(* Sender::send on a full channel overwrites the oldest line *)
SendLine(q, line) ==
    IF Len(q) < LogChanCap THEN Append(q, line) ELSE Append(Tail(q), line)

Overflows(q) == Len(q) >= LogChanCap

(* the exists test, File::open, and the comparison of size and last_size *)
(***************************************************************************)
(* The log exists once a line has been written to it; a truncation leaves  *)
(* it in place, empty, and the backup's rename takes it away.              *)
(***************************************************************************)
LogExists == log # << >> \/ session > 1

TailerStat ==
    /\ tpc = "stat"
    /\ UNCHANGED notInst
    /\ IF ~LogExists
       THEN tpc' = "tick" /\ UNCHANGED <<file_pos, last_size>>
       ELSE /\ IF Len(log) < last_size
               THEN file_pos' = 0
               ELSE UNCHANGED file_pos
            /\ LET ls == IF Len(log) < last_size THEN 0 ELSE last_size
               IN  IF Len(log) > ls
                   THEN last_size' = Len(log) /\ tpc' = "read"
                   ELSE last_size' = ls /\ tpc' = "pid"
    /\ UNCHANGED <<proc, pidf, log, others, chan, lagged, dpc, status, spc,
                   op, opres, last_call, nops, oskills, rcons, cleanups,
                   emitted>>

(* seek, read_line, sender.send(out)? *)
TailerReadLine ==
    /\ tpc = "read"
    /\ UNCHANGED notInst
    /\ IF file_pos >= Len(log)
       THEN tpc' = "tick" /\ UNCHANGED <<file_pos, chan, lagged, emitted>>
       ELSE /\ file_pos' = file_pos + 1
            /\ IF NoReceiver
               THEN tpc' = "failed" /\ UNCHANGED <<chan, lagged, emitted>>
               ELSE /\ chan' = SendLine(chan, log[file_pos + 1])
                    /\ emitted' = Append(emitted, log[file_pos + 1])
                    /\ lagged' = (lagged \/ Overflows(chan))
                    /\ UNCHANGED tpc
    /\ UNCHANGED <<proc, pidf, log, others, last_size, dpc, status, spc, op,
                   opres, last_call, nops, oskills, rcons, cleanups>>

(* a pid check that goes on polling after it has sent the sentinel *)
TailerPidCheck_Again ==
    /\ tpc = "pid"
    /\ UNCHANGED notInst
    /\ IF pidf = "none" \/ (pidf = "pid" /\ ProcAlive(proc))
       THEN tpc' = "stat" /\ UNCHANGED <<chan, lagged, emitted>>
       ELSE IF pidf = "empty" \/ NoReceiver
       THEN tpc' = "failed" /\ UNCHANGED <<chan, lagged, emitted>>
       ELSE /\ chan' = SendLine(chan, Sentinel)
            /\ emitted' = Append(emitted, Sentinel)
            /\ lagged' = (lagged \/ Overflows(chan))
            /\ tpc' = "stat"
    /\ UNCHANGED <<proc, pidf, log, others, file_pos, last_size, dpc, status,
                   spc, op, opres, last_call, nops, oskills, rcons, cleanups>>

(* the pidfile is read, parsed and looked up in the process table *)
TailerPidCheck ==
    /\ tpc = "pid"
    /\ UNCHANGED notInst
    /\ IF pidf = "none" \/ (pidf = "pid" /\ ProcAlive(proc))
       THEN tpc' = "stat" /\ UNCHANGED <<chan, lagged, emitted>>
       ELSE IF pidf = "empty" \/ NoReceiver
       THEN tpc' = "failed" /\ UNCHANGED <<chan, lagged, emitted>>
       ELSE /\ chan' = SendLine(chan, Sentinel)
            /\ emitted' = Append(emitted, Sentinel)
            /\ lagged' = (lagged \/ Overflows(chan))
            /\ tpc' = "done"
    /\ UNCHANGED <<proc, pidf, log, others, file_pos, last_size, dpc, status,
                   spc, op, opres, last_call, nops, oskills, rcons, cleanups>>

(* interval.tick().await *)
TailerTick ==
    /\ tpc = "tick"
    /\ UNCHANGED notInst
    /\ tpc' = "stat"
    /\ UNCHANGED <<proc, pidf, log, others, file_pos, last_size, chan, lagged, dpc,
                   status, spc, op, opres, last_call, nops, oskills, rcons, cleanups,
                   emitted>>

(* ---- the status driver (tracker_resv) ---- *)

(* a driver that takes no notice of the Closed line *)
DriverStatus_NoClosed(line, cur) ==
    IF line = Sentinel THEN "Stopped"
    ELSE IF line = InGameLine THEN "Running"
    ELSE cur

(* the status a line switches to *)
DriverStatus(line, cur) ==
    IF line = Sentinel THEN "Stopped"
    ELSE IF line = InGameLine THEN "Running"
    ELSE IF line = ClosedLine THEN "Closed"
    ELSE cur

(* recv.recv().await? and the three tests on the line *)
DriverRecv ==
    /\ dpc = "run"
    /\ UNCHANGED notInst
    /\ IF lagged
       THEN dpc' = "failed" /\ UNCHANGED <<status, chan, lagged>>
       ELSE IF chan # << >>
       THEN /\ status' = DriverStatus(Head(chan), status)
            /\ chan' = Tail(chan)
            /\ dpc' = IF Head(chan) = Sentinel THEN "done" ELSE "run"
            /\ UNCHANGED lagged
       ELSE /\ tpc \in {"done", "failed"}
            /\ dpc' = "failed"
            /\ UNCHANGED <<status, chan, lagged>>
    /\ UNCHANGED <<proc, pidf, log, others, file_pos, last_size, tpc, spc, op,
                   opres, last_call, nops, oskills, rcons, cleanups,
                   emitted>>

(* ---- RunningInstance::kill / stop / send_command ---- *)

Ops == {"kill", "stop", "send_command"}

Cmds == {"/quit", "/say"}

(* an over-permissive comparison, for contrast with StatusOk *)
StatusOk_Lax(cur, expected) == cur # "Stopped"

(* *status != expected, negated *)
StatusOk(cur, expected) == cur = expected

EndOp(r) ==
    /\ op' = NoOp
    /\ opres' = r
    /\ last_call' = [name |-> op.name, crashed |-> op.crashed]

(* the client calls one of the three methods on the RunningInstance *)
CallOp ==
    /\ spc = "done"
    /\ op = NoOp
    /\ nops < MaxOps
    /\ UNCHANGED notInst
    /\ \E n \in Ops : \E cmd \in Cmds :
          /\ n # "send_command" => cmd = "/quit"
          /\ op' = [name |-> n, pc |-> "check", cmd |-> cmd,
                    crashed |-> (proc = "dead")]
    /\ nops' = nops + 1
    /\ UNCHANGED <<proc, pidf, log, others, file_pos, last_size, tpc, chan,
                   lagged, dpc, status, spc, opres, last_call, oskills, rcons, cleanups,
                   emitted>>

(* check_status, and the first half of check_and_set_status *)
OpCheck ==
    /\ op.pc = "check"
    /\ UNCHANGED notInst
    /\ IF StatusOk(status, "Running")
       THEN /\ op' = [op EXCEPT !.pc = IF op.name = "send_command"
                                       THEN "rcon" ELSE "set"]
            /\ UNCHANGED <<opres, last_call>>
       ELSE EndOp("NotAllowed")
    /\ UNCHANGED <<proc, pidf, log, others, file_pos, last_size, tpc, chan,
                   lagged, dpc, status, spc, nops, oskills, rcons, cleanups,
                   emitted>>

(* self.status.send_replace(new_status) *)
OpSet ==
    /\ op.pc = "set"
    /\ UNCHANGED notInst
    /\ status' = "Stopping"
    /\ op' = [op EXCEPT !.pc = IF op.name = "kill" THEN "kill" ELSE "rcon"]
    /\ UNCHANGED <<proc, pidf, log, others, file_pos, last_size, tpc, chan,
                   lagged, dpc, spc, opres, last_call, nops, oskills, rcons, cleanups,
                   emitted>>

(* self.process.kill().await?; self.process.wait().await? *)
OpKill ==
    /\ op.pc = "kill"
    /\ UNCHANGED notInst
    /\ oskills' = oskills + 1
    /\ proc' = "dead"
    /\ op' = [op EXCEPT !.pc = "cleanup"]
    /\ UNCHANGED <<pidf, log, others, file_pos, last_size, tpc, chan, lagged,
                   dpc, status, spc, opres, last_call, nops, rcons, cleanups,
                   emitted>>

(***************************************************************************)
(* send_command_internal: an RCON connection is attempted; it can succeed  *)
(* only while the child is in game, and it can fail at any time.           *)
(***************************************************************************)
OpRcon ==
    /\ op.pc = "rcon"
    /\ UNCHANGED notInst
    /\ rcons' = rcons + 1
    /\ \/ /\ proc = "ingame"
          /\ proc' = IF op.cmd = "/quit" THEN "quitting" ELSE proc
          /\ IF op.name = "stop"
             THEN op' = [op EXCEPT !.pc = "wait"] /\ UNCHANGED <<opres, last_call>>
             ELSE EndOp("Ok")
       \/ /\ EndOp("RconError")
          /\ UNCHANGED proc
    /\ UNCHANGED <<pidf, log, others, file_pos, last_size, tpc, chan, lagged,
                   dpc, status, spc, nops, oskills, cleanups,
                   emitted>>

(* status.wait_for(|val| *val == Status::Closed).await? *)
OpWaitClosed ==
    /\ op.pc = "wait"
    /\ UNCHANGED notInst
    /\ status = "Closed"
    /\ op' = [op EXCEPT !.pc = "grace"]
    /\ UNCHANGED <<proc, pidf, log, others, file_pos, last_size, tpc, chan,
                   lagged, dpc, status, spc, opres, last_call, nops, oskills, rcons,
                   cleanups,
                   emitted>>

(* a grace window after which a child that still runs is left running *)
OpGrace_NoKill ==
    /\ op.pc = "grace"
    /\ UNCHANGED notInst
    /\ \/ proc' = "dead"
       \/ ProcAlive(proc) /\ UNCHANGED proc
    /\ op' = [op EXCEPT !.pc = "cleanup"]
    /\ UNCHANGED <<pidf, log, others, file_pos, last_size, tpc, chan, lagged,
                   dpc, status, spc, opres, last_call, nops, oskills, rcons,
                   cleanups, emitted>>

(* timeout(3 s, process.wait()), and on a timeout kill().ok(), wait().ok() *)
OpGrace ==
    /\ op.pc = "grace"
    /\ UNCHANGED notInst
    /\ \/ proc' = "dead" /\ UNCHANGED oskills
       \/ ProcAlive(proc) /\ proc' = "dead" /\ oskills' = oskills + 1
    /\ op' = [op EXCEPT !.pc = "cleanup"]
    /\ UNCHANGED <<pidf, log, others, file_pos, last_size, tpc, chan, lagged,
                   dpc, status, spc, opres, last_call, nops, rcons, cleanups,
                   emitted>>

(* the files cleanup() hands to the backup; factorio.pid is not among them *)
CleanupFiles ==
    {"factorio-current.log", "console.log", "mod-settings.dat",
     "mod-settings.json"}

(***************************************************************************)
(* The manager's backup renames each file into the data store, so the log  *)
(* is gone from the instance directory afterwards; a rename can fail,      *)
(* before or after the log has been moved.                                 *)
(***************************************************************************)
BackupOutcomes(l) ==
    {[res |-> "Ok", log |-> << >>],
     [res |-> "IoError", log |-> l],
     [res |-> "IoError", log |-> << >>]}

(* cleanup() *)
OpCleanup ==
    /\ op.pc = "cleanup"
    /\ UNCHANGED notInst
    /\ cleanups' = cleanups + 1
    /\ \E o \in BackupOutcomes(log) :
          /\ EndOp(o.res)
          /\ log' = o.log
    /\ pidf' = IF "factorio.pid" \in CleanupFiles THEN "none" ELSE pidf
    /\ UNCHANGED <<proc, others, file_pos, last_size, tpc, chan, lagged,
                   dpc, status, spc, nops, oskills, rcons, emitted>>

(* the caller drops the future at one of its await points *)
OpCancel ==
    /\ op.pc \in {"kill", "rcon", "wait", "grace", "cleanup"}
    /\ UNCHANGED notInst
    /\ EndOp("Cancelled")
    /\ UNCHANGED <<proc, pidf, log, others, file_pos, last_size, tpc, chan,
                   lagged, dpc, status, spc, nops, oskills, rcons, cleanups,
                   emitted>>

InstanceNext ==
    \/ RunSpawn
    \/ RunCreatePid
    \/ RunWritePid
    \/ ChildLogInGame
    \/ ChildLogOther
    \/ ChildLogClosed
    \/ ChildEnd
    \/ TailerStat
    \/ TailerReadLine
    \/ TailerPidCheck
    \/ TailerTick
    \/ DriverRecv
    \/ CallOp
    \/ OpCheck
    \/ OpSet
    \/ OpKill
    \/ OpRcon
    \/ OpWaitClosed
    \/ OpGrace
    \/ OpCleanup
    \/ OpCancel

InstanceIdle == InstanceInit

-----------------------------------------------------------------------------
(* The data store: Data::get_and_rotate_file on one file, and the rename   *)
(* by which the manager's backup fills the base path it returns.           *)

(* the amount the manager passes *)
RotateAmount == 9

(* one index past the last generation, to see a file kept beyond it *)
Indices == 0..(RotateAmount + 1)

Contents == {"a", "b"}

NoFiles == [k \in Indices |-> "absent"]

NoPre == [base |-> "absent", dir |-> NoFiles]

(* a rotate_file that renames before it has made room for the name *)
RECURSIVE RotateFile_Clobber(_, _, _)
RotateFile_Clobber(d, num, end) ==
    IF d[num] = "absent" THEN d
    ELSE IF num = end THEN [d EXCEPT ![num] = "absent"]
    ELSE LET r == [d EXCEPT ![num + 1] = d[num], ![num] = "absent"]
         IN  IF num + 1 = end THEN r ELSE RotateFile_Clobber(r, num + 2, end)

(* Data::rotate_file with an end test that is one generation late *)
RECURSIVE RotateFile_Late(_, _, _)
RotateFile_Late(d, num, end) ==
    IF d[num] = "absent" THEN d
    ELSE IF num = end + 1 THEN [d EXCEPT ![num] = "absent"]
    ELSE LET r == RotateFile_Late(d, num + 1, end)
         IN  [r EXCEPT ![num + 1] = d[num], ![num] = "absent"]

(***************************************************************************)
(* Data::rotate_file: nothing if file.num does not exist; file.end is      *)
(* removed; any other file.num is renamed to file.(num+1) once that one    *)
(* has been rotated.                                                       *)
(***************************************************************************)
RECURSIVE RotateFile(_, _, _)
RotateFile(d, num, end) ==
    IF d[num] = "absent" THEN d
    ELSE IF num = end THEN [d EXCEPT ![num] = "absent"]
    ELSE LET r == RotateFile(d, num + 1, end)
         IN  [r EXCEPT ![num + 1] = d[num], ![num] = "absent"]

(* the directories in which a rotate_file whose remove or rename fails ends *)
RECURSIVE RotateFileFailed(_, _, _)
RotateFileFailed(d, num, end) ==
    IF d[num] = "absent" THEN {}
    ELSE IF num = end THEN {d}
    ELSE RotateFileFailed(d, num + 1, end) \cup {RotateFile(d, num + 1, end)}

(* the base file exists and its size is not 0 *)
NonEmpty(b) == b \notin {"absent", "empty"}

RotateInit ==
    /\ rbase = "absent"
    /\ rdir = NoFiles
    /\ rpc = "idle"
    /\ rpre = NoPre

(* get_and_rotate_file returns Ok(file_path) *)
GetAndRotateFile ==
    /\ rpc = "idle"
    /\ UNCHANGED notRot
    /\ rpre' = [base |-> rbase, dir |-> rdir]
    /\ rpc' = "rotated"
    /\ IF NonEmpty(rbase)
       THEN /\ rdir' = [RotateFile(rdir, 0, RotateAmount) EXCEPT ![0] = rbase]
            /\ rbase' = "absent"
       ELSE UNCHANGED <<rbase, rdir>>

(* get_and_rotate_file returns the error of a remove or a rename *)
GetAndRotateFileErr ==
    /\ rpc = "idle"
    /\ UNCHANGED notRot
    /\ NonEmpty(rbase)
    /\ rdir' \in RotateFileFailed(rdir, 0, RotateAmount)
                    \cup {RotateFile(rdir, 0, RotateAmount)}
    /\ UNCHANGED <<rbase, rpc, rpre>>

(* rename(<instance>/<file>, log_path): the backed-up file becomes the base *)
BackupRename ==
    /\ rpc = "rotated"
    /\ UNCHANGED notRot
    /\ \/ \E c \in Contents \cup {"empty"} : rbase' = c
       \/ UNCHANGED rbase
    /\ rpc' = "idle"
    /\ rpre' = NoPre
    /\ UNCHANGED rdir

RotateNext ==
    \/ GetAndRotateFile
    \/ GetAndRotateFileErr
    \/ BackupRename

RotateIdle == RotateInit

-----------------------------------------------------------------------------
(* The tailer alone, on a log that is written, truncated and written       *)
(* again while the child stays alive.                                      *)

(* the lines of each session, all different *)
SessionLines ==
    << <<"a1", "a2", "a3", "a4">>,
       <<"b1", "b2", "b3", "b4">>,
       <<"c1", "c2", "c3", "c4">> >>

LineOf(s, k) == SessionLines[s][k]

TailIdle == session = 1

(* start() has returned, the child runs and has not logged anything yet *)
TailInit ==
    /\ proc = "starting"
    /\ pidf = "pid"
    /\ log = << >>
    /\ others = 0
    /\ file_pos = 0
    /\ last_size = 0
    /\ tpc = "stat"
    /\ chan = << >>
    /\ lagged = FALSE
    /\ dpc = "run"
    /\ status = "Stopped"
    /\ spc = "done"
    /\ op = NoOp
    /\ opres = "none"
    /\ last_call = NoCall
    /\ nops = 0
    /\ oskills = 0
    /\ rcons = 0
    /\ cleanups = 0
    /\ emitted = << >>
    /\ session = 1

(* the child appends the next line of the session *)
LogWrite ==
    /\ Len(log) < MaxLines
    /\ UNCHANGED notTail
    /\ log' = Append(log, LineOf(session, Len(log) + 1))
    /\ UNCHANGED <<proc, pidf, others, file_pos, last_size, tpc, chan, lagged,
                   dpc, status, spc, op, opres, last_call, nops, oskills,
                   rcons, cleanups, emitted, session>>

(* the log is truncated to nothing *)
LogTruncate ==
    /\ log # << >>
    /\ session < MaxSessions
    /\ UNCHANGED notTail
    /\ log' = << >>
    /\ session' = session + 1
    /\ UNCHANGED <<proc, pidf, others, file_pos, last_size, tpc, chan, lagged,
                   dpc, status, spc, op, opres, last_call, nops, oskills,
                   rcons, cleanups, emitted>>

(* one line more than the log channel holds *)
BurstLen == LogChanCap + 1

(***************************************************************************)
(* The child logs a burst of lines between two polls of the tailer, as it  *)
(* does while it loads a save.                                             *)
(***************************************************************************)
ChildLogBurst ==
    /\ ProcAlive(proc)
    /\ others = 0
    /\ UNCHANGED notInst
    /\ log' = log \o [i \in 1..BurstLen |-> OtherLine]
    /\ others' = BurstLen
    /\ UNCHANGED <<proc, pidf, file_pos, last_size, tpc, chan, lagged, dpc,
                   status, spc, op, opres, last_call, nops, oskills, rcons,
                   cleanups, emitted>>

(* a run in which the client makes no call and the child logs a burst *)
BurstNext ==
    \/ ChildLogInGame
    \/ ChildLogBurst
    \/ ChildEnd
    \/ TailerStat
    \/ TailerReadLine
    \/ TailerPidCheck
    \/ TailerTick
    \/ DriverRecv

TailNext ==
    \/ LogWrite
    \/ LogTruncate
    \/ TailerStat
    \/ TailerReadLine
    \/ TailerPidCheck
    \/ TailerTick
    \/ DriverRecv

-----------------------------------------------------------------------------
(* The credential manager: load, login_with_token, logout, save.           *)

Usernames == {"alice", "bob", "carol"}

Tokens == {"t1", "t2", "t3"}

(* Option<Credentials>: None, or Some of a username and a token *)
None == [some |-> FALSE, username |-> "", token |-> ""]

Some(u, t) == [some |-> TRUE, username |-> u, token |-> t]

NoFile == [exists |-> FALSE, text |-> << >>]

(* serde_json::to_writer(file, &self.credentials) *)
ToJson(c) ==
    IF c.some THEN <<"{", "username", c.username, "token", c.token, "}">>
    ELSE <<"null">>

(* serde_json::from_reader(file) into Credentials: both fields are required *)
FromJson(text) ==
    IF Len(text) = 6 /\ text[1] = "{" /\ text[2] = "username"
                     /\ text[4] = "token" /\ text[6] = "}"
    THEN [ok |-> TRUE, value |-> Some(text[3], text[5])]
    ELSE [ok |-> FALSE, value |-> None]

(* std::fs::remove_file *)
RemoveFile(f) ==
    IF f.exists THEN [res |-> "Ok", file |-> NoFile]
    ELSE [res |-> "IoError", file |-> f]

(* what CredentialManager::load makes of the file *)
Load(f) ==
    IF ~f.exists THEN [res |-> "Ok", credentials |-> None]
    ELSE IF FromJson(f.text).ok
    THEN [res |-> "Ok", credentials |-> FromJson(f.text).value]
    ELSE [res |-> "JsonError", credentials |-> None]

CredInit ==
    /\ save_file = NoFile
    /\ credentials = None
    /\ cred_res = "none"
    /\ cred_op = "none"

CredLoad ==
    /\ UNCHANGED notCred
    /\ credentials' = Load(save_file).credentials
    /\ cred_res' = Load(save_file).res
    /\ cred_op' = "load"
    /\ UNCHANGED save_file

LoginWithToken ==
    /\ UNCHANGED notCred
    /\ \E u \in Usernames : \E t \in Tokens : credentials' = Some(u, t)
    /\ cred_op' = "login_with_token"
    /\ UNCHANGED <<save_file, cred_res>>

Logout ==
    /\ UNCHANGED notCred
    /\ credentials' = None
    /\ cred_op' = "logout"
    /\ UNCHANGED <<save_file, cred_res>>

CredSave ==
    /\ UNCHANGED notCred
    /\ IF credentials.some
       THEN /\ save_file' = [exists |-> TRUE, text |-> ToJson(credentials)]
            /\ cred_res' = "Ok"
       ELSE /\ save_file' = RemoveFile(save_file).file
            /\ cred_res' = RemoveFile(save_file).res
    /\ cred_op' = "save"
    /\ UNCHANGED credentials

CredNext ==
    \/ CredLoad
    \/ LoginWithToken
    \/ Logout
    \/ CredSave

CredIdle == CredInit

-----------------------------------------------------------------------------
(* Version: from_str and fmt, on strings given as sequences of characters. *)

Digits == <<"0", "1", "2", "3", "4", "5", "6", "7", "8", "9">>

IsDigit(ch) == \E i \in 1..10 : Digits[i] = ch

DigitVal(ch) == (CHOOSE i \in 1..10 : Digits[i] = ch) - 1

(* u16::MAX *)
U16Max == 65535

(* the parts of s between the dots: s.split('.') *)
RECURSIVE Split(_)
Split(s) ==
    IF \A i \in 1..Len(s) : s[i] # "." THEN <<s>>
    ELSE LET d == CHOOSE i \in 1..Len(s) :
                      s[i] = "." /\ \A j \in 1..(i - 1) : s[j] # "."
         IN  <<SubSeq(s, 1, d - 1)>> \o Split(SubSeq(s, d + 1, Len(s)))

(* the value of a digit string, -1 once it has passed u16::MAX *)
RECURSIVE DigitsValue(_, _)
DigitsValue(ds, acc) ==
    IF ds = << >> THEN acc
    ELSE LET n == acc * 10 + DigitVal(Head(ds))
         IN  IF n > U16Max THEN -1 ELSE DigitsValue(Tail(ds), n)

(* a u16 parse that wraps around instead of failing *)
ParsePart_Wrap(part) ==
    LET ds == IF part # << >> /\ Head(part) = "+" THEN Tail(part) ELSE part
    IN  IF ds = << >> \/ \E i \in 1..Len(ds) : ~IsDigit(ds[i])
        THEN [ok |-> FALSE, value |-> 0]
        ELSE [ok |-> TRUE,
              value |-> IF DigitsValue(ds, 0) < 0 THEN 0
                        ELSE DigitsValue(ds, 0)]

(***************************************************************************)
(* part.parse::<u16>(): an optional '+', then one or more digits, leading  *)
(* zeros included, of a value up to u16::MAX.                              *)
(***************************************************************************)
ParsePart(part) ==
    LET ds == IF part # << >> /\ Head(part) = "+" THEN Tail(part) ELSE part
    IN  IF ds = << >> \/ \E i \in 1..Len(ds) : ~IsDigit(ds[i])
        THEN [ok |-> FALSE, value |-> 0]
        ELSE IF DigitsValue(ds, 0) < 0 THEN [ok |-> FALSE, value |-> 0]
        ELSE [ok |-> TRUE, value |-> DigitsValue(ds, 0)]

NoVersion == [res |-> "none", version |-> <<0, 0, 0>>]

(* Version::from_str *)
FromStr(s) ==
    LET parts == Split(s)
    IN  IF Len(parts) # 3
        THEN [res |-> "InvalidVersionFormat", version |-> <<0, 0, 0>>]
        ELSE IF \E i \in 1..3 : ~ParsePart(parts[i]).ok
        THEN [res |-> "InvalidVersionFormat", version |-> <<0, 0, 0>>]
        ELSE [res |-> "Ok",
              version |-> [i \in 1..3 |-> ParsePart(parts[i]).value]]

(* the decimal digits of a u16 *)
RECURSIVE ToDigits(_)
ToDigits(n) ==
    IF n < 10 THEN <<Digits[n + 1]>>
    ELSE ToDigits(n \div 10) \o <<Digits[(n % 10) + 1]>>

(* Version::fmt: "{}.{}.{}" *)
Fmt(v) == ToDigits(v[1]) \o <<".">> \o ToDigits(v[2]) \o <<".">> \o ToDigits(v[3])

(* parts a version string is put together from, well-formed or not *)
PartStrings ==
    { <<"0">>, <<"1">>, <<"2", "0">>, <<"0", "1">>, <<"+", "1">>,
      <<"6", "5", "5", "3", "5">>, <<"6", "5", "5", "3", "6">>,
      << >>, <<"-", "1">>, <<"1", "a">> }

RECURSIVE Join(_)
Join(ps) ==
    IF Len(ps) = 1 THEN ps[1] ELSE ps[1] \o <<".">> \o Join(Tail(ps))

VersionStrings ==
    UNION {{Join(ps) : ps \in [1..n -> PartStrings]} : n \in 1..MaxParts}

PartValues == {0, 1, 20, U16Max}

Versions == [1..3 -> PartValues]

VersionIdle ==
    /\ vsrc = << >>
    /\ vstr = << >>
    /\ vver = NoVersion
    /\ vout = << >>
    /\ vpc = "done"

VersionInit ==
    /\ vver = NoVersion
    /\ vout = << >>
    /\ \/ vsrc = << >> /\ vstr \in VersionStrings /\ vpc = "parse"
       \/ vsrc \in Versions /\ vstr = << >> /\ vpc = "format_first"

(* version.to_string() *)
VFormatFirst ==
    /\ vpc = "format_first"
    /\ UNCHANGED notVer
    /\ vstr' = Fmt(vsrc)
    /\ vpc' = "parse"
    /\ UNCHANGED <<vsrc, vver, vout>>

(* s.parse::<Version>() *)
VParse ==
    /\ vpc = "parse"
    /\ UNCHANGED notVer
    /\ vver' = FromStr(vstr)
    /\ vpc' = IF FromStr(vstr).res = "Ok" THEN "format" ELSE "done"
    /\ UNCHANGED <<vsrc, vstr, vout>>

(* parsed.to_string() *)
VFormat ==
    /\ vpc = "format"
    /\ UNCHANGED notVer
    /\ vout' = Fmt(vver.version)
    /\ vpc' = "done"
    /\ UNCHANGED <<vsrc, vstr, vver>>

VersionNext ==
    \/ VFormatFirst
    \/ VParse
    \/ VFormat

-----------------------------------------------------------------------------
(* Composing one instance directory: Instance::prepare and the manager's   *)
(* prepare_instance, with the mod list they write.                         *)

ModNames == {"A", "B"}

(* settings.mods, as add_mod builds it: any order, repetitions included *)
ModLists == UNION {[1..n -> ModNames] : n \in 0..MaxMods}

EngineVersions ==
    { <<1, 1, 110>>, <<1, U16Max, U16Max>>, <<2, 0, 0>>, <<2, 0, 1>>,
      <<3, 0, 0>> }

BaseModsSet ==
    [base : BOOLEAN, elevated_rails : BOOLEAN, quality : BOOLEAN,
     space_age : BOOLEAN]

Settings ==
    [factorio_version : EngineVersions, base_mods : BaseModsSet,
     mods : ModLists]

(* Version([2, 0, 0]) *)
SpaceAgeVersion == <<2, 0, 0>>

(* a comparison that takes 2.0.0 itself for older than 2.0.0 *)
VersionGe_Strict(a, b) ==
    \/ a[1] > b[1]
    \/ a[1] = b[1] /\ a[2] > b[2]
    \/ a[1] = b[1] /\ a[2] = b[2] /\ a[3] > b[3]

(* the derived PartialOrd of Version([u16; 3]): arrays compare by element *)
VersionGe(a, b) ==
    LET diff == {i \in 1..3 : a[i] # b[i]}
    IN  IF diff = {} THEN TRUE
        ELSE LET i == CHOOSE k \in diff : \A j \in diff : k <= j
             IN  a[i] > b[i]

Entry(n, e) == [name |-> n, enabled |-> e]

(* the ModList that build_mod_list_json puts together *)
BuildModList(settings) ==
    <<Entry("base", TRUE)>>
    \o (IF VersionGe(settings.factorio_version, SpaceAgeVersion)
        THEN <<Entry("elevated-rails", settings.base_mods.elevated_rails),
               Entry("quality", settings.base_mods.quality),
               Entry("space-age", settings.base_mods.quality)>>
        ELSE << >>)
    \o [i \in 1..Len(settings.mods) |-> Entry(settings.mods[i], TRUE)]

BoolText(b) == IF b THEN "true" ELSE "false"

RECURSIVE EntriesJson(_)
EntriesJson(l) ==
    IF l = << >> THEN << >>
    ELSE <<"{", "name", Head(l).name, "enabled", BoolText(Head(l).enabled),
           "}">> \o EntriesJson(Tail(l))

(* serde_json::to_string(&mod_list), token by token *)
ModListJson(l) == <<"{", "mods", "[">> \o EntriesJson(l) \o <<"]", "}">>

AbsentDir == [exists |-> FALSE, links |-> {}, mod_list |-> << >>]

Link(n, t) == [name |-> n, target |-> t]

(* the links of a composition, in the order in which they are made *)
LinkSeq(settings) ==
    <<Link("factorio", "cache"), Link("config-path.cfg", "cache"),
      Link("data", "cache"), Link("saves", "saves")>>
    \o [i \in 1..Len(settings.mods) |-> Link(settings.mods[i], "mods")]

(* how many links can be made before a name comes a second time *)
Linkable(settings) ==
    LET l == LinkSeq(settings)
        dup == {i \in 1..Len(l) : \E j \in 1..(i - 1) : l[j] = l[i]}
    IN  IF dup = {} THEN Len(l)
        ELSE (CHOOSE k \in dup : \A j \in dup : k <= j) - 1

FirstLinks(settings, k) == {LinkSeq(settings)[i] : i \in 1..k}

(***************************************************************************)
(* What a composition leaves once the old directory is out of the way:     *)
(* the whole directory, or the part built when a step fails; a link whose  *)
(* name exists already fails.                                              *)
(***************************************************************************)
ComposeOutcomes(settings) ==
    {[result |-> "IoError", failed_at |-> "mkdir", dir |-> AbsentDir]}
    \cup {[result |-> "IoError", failed_at |-> "link",
           dir |-> [exists |-> TRUE, links |-> FirstLinks(settings, k),
                    mod_list |-> << >>]] : k \in 0..Linkable(settings)}
    \cup (IF Linkable(settings) < Len(LinkSeq(settings)) THEN {}
          ELSE {[result |-> r.result, failed_at |-> r.failed_at,
                 dir |-> [exists |-> TRUE,
                          links |-> FirstLinks(settings, Len(LinkSeq(settings))),
                          mod_list |-> ModListJson(BuildModList(settings))]] :
                  r \in {[result |-> "Ok", failed_at |-> "none"],
                         [result |-> "IoError", failed_at |-> "restore"]}})

NoComposition ==
    [who |-> "none", prior |-> AbsentDir, result |-> "none",
     failed_at |-> "none"]

PrepareIdle ==
    /\ psettings = CHOOSE x \in Settings : TRUE
    /\ pdir = AbsentDir
    /\ plast = NoComposition
    /\ pfirst = AbsentDir

PrepareInit ==
    /\ psettings \in Settings
    /\ pdir = AbsentDir
    /\ plast = NoComposition
    /\ pfirst = AbsentDir

Composed(who, o) ==
    /\ pdir' = o.dir
    /\ plast' = [who |-> who, prior |-> pdir, result |-> o.result,
                 failed_at |-> o.failed_at]
    /\ pfirst' = IF o.result = "Ok" /\ ~pfirst.exists THEN o.dir ELSE pfirst
    /\ UNCHANGED psettings

(* Instance::prepare: the directory is removed if it exists *)
Prepare ==
    /\ UNCHANGED notPrep
    /\ \E o \in ComposeOutcomes(psettings) : Composed("Instance::prepare", o)

(***************************************************************************)
(* Manager::prepare_instance: remove_dir_all(&factorio_path).await? comes  *)
(* first and returns the error of a directory that does not exist.         *)
(***************************************************************************)
PrepareInstance ==
    /\ UNCHANGED notPrep
    /\ IF ~pdir.exists
       THEN Composed("Manager::prepare_instance",
                     [result |-> "IoError", failed_at |-> "remove",
                      dir |-> pdir])
       ELSE \E o \in ComposeOutcomes(psettings) :
               /\ o.failed_at # "restore"
               /\ Composed("Manager::prepare_instance", o)

PrepareNext ==
    \/ Prepare
    \/ PrepareInstance

-----------------------------------------------------------------------------
(* The tailer on the bytes of a log that is only appended to: the child    *)
(* writes bytes, and a line is complete once its newline is written.       *)

NL == "\n"

CR == "\r"

Chars == {"a", "b", NL}

Min(S) == CHOOSE x \in S : \A y \in S : x <= y

(***************************************************************************)
(* file.seek(Start(pos)), then read_line on a fresh BufReader: the bytes   *)
(* from pos up to the next newline, the newline included, or up to the end *)
(* of the file when no newline follows.                                    *)
(***************************************************************************)
ReadLine(f, pos) ==
    LET nls == {i \in (pos + 1)..Len(f) : f[i] = NL}
    IN  SubSeq(f, pos + 1, IF nls = {} THEN Len(f) ELSE Min(nls))

DropLast(o) == SubSeq(o, 1, Len(o) - 1)

EndsWith(o, c) == o # << >> /\ o[Len(o)] = c

(* out.pop() of the newline, and of a carriage return before it *)
StripLine(o) ==
    IF EndsWith(o, NL)
    THEN IF EndsWith(DropLast(o), CR) THEN DropLast(DropLast(o))
         ELSE DropLast(o)
    ELSE o

ByteInit ==
    /\ bytes = << >>
    /\ byte_pos = 0
    /\ byte_size = 0
    /\ bpc = "stat"
    /\ sent_lines = << >>

ByteIdle == ByteInit

(* the child appends to the log *)
ByteAppend ==
    /\ Len(bytes) < MaxBytes
    /\ UNCHANGED notByte
    /\ \E c \in Chars : bytes' = Append(bytes, c)
    /\ UNCHANGED <<byte_pos, byte_size, bpc, sent_lines>>

(***************************************************************************)
(* The exists test, File::open, and the comparison of size and last_size;  *)
(* when the file has not grown, the pid check finds the child, which is    *)
(* running, and the loop starts again.                                     *)
(***************************************************************************)
ByteStat ==
    /\ bpc = "stat"
    /\ UNCHANGED notByte
    /\ IF bytes = << >>
       THEN bpc' = "tick" /\ UNCHANGED <<byte_pos, byte_size>>
       ELSE /\ byte_pos' = IF Len(bytes) < byte_size THEN 0 ELSE byte_pos
            /\ LET ls == IF Len(bytes) < byte_size THEN 0 ELSE byte_size
               IN  IF Len(bytes) > ls
                   THEN byte_size' = Len(bytes) /\ bpc' = "read"
                   ELSE byte_size' = ls /\ bpc' = "stat"
    /\ UNCHANGED <<bytes, sent_lines>>

(* one turn of the read loop: seek, read_line, pop, sender.send(out)? *)
ByteReadLine ==
    /\ bpc = "read"
    /\ UNCHANGED notByte
    /\ LET out == ReadLine(bytes, byte_pos)
       IN  IF out = << >>
           THEN bpc' = "tick" /\ UNCHANGED <<byte_pos, sent_lines>>
           ELSE /\ byte_pos' = byte_pos + Len(out)
                /\ sent_lines' = Append(sent_lines, StripLine(out))
                /\ UNCHANGED bpc
    /\ UNCHANGED <<bytes, byte_size>>

(* interval.tick().await *)
ByteTick ==
    /\ bpc = "tick"
    /\ UNCHANGED notByte
    /\ bpc' = "stat"
    /\ UNCHANGED <<bytes, byte_pos, byte_size, sent_lines>>

ByteNext ==
    \/ ByteAppend
    \/ ByteStat
    \/ ByteReadLine
    \/ ByteTick

-----------------------------------------------------------------------------
(* The backup that cleanup() asks of the manager, on the files of one      *)
(* instance directory.                                                     *)

(* the files backup_logs moves, in the order in which it takes them *)
LogFiles == <<"factorio-current.log", "console.log">>

NoBackup == [pre |-> {}, res |-> "none", backed |-> {}]

BackupInit ==
    /\ ifiles = {}
    /\ backup_last = NoBackup

BackupIdle == BackupInit

(* the child, or a composition, writes one of the files *)
InstanceWrites ==
    /\ UNCHANGED notBackup
    /\ \E f \in CleanupFiles \ ifiles : ifiles' = ifiles \cup {f}
    /\ UNCHANGED backup_last

(***************************************************************************)
(* Manager::backup_logs: for each file in turn, get_and_rotate_file and    *)
(* then rename(<instance>/<file>, <store>/<file>).await?; the rename of a  *)
(* file that does not exist fails, and the '?' returns its error.          *)
(***************************************************************************)
BackupLogs ==
    /\ UNCHANGED notBackup
    /\ LET missing == {i \in 1..Len(LogFiles) : LogFiles[i] \notin ifiles}
           upto == IF missing = {} THEN Len(LogFiles) ELSE Min(missing) - 1
           moved == {LogFiles[i] : i \in 1..upto}
       IN  /\ ifiles' = ifiles \ moved
           /\ backup_last' =
                 [pre |-> ifiles,
                  res |-> IF missing = {} THEN "Ok" ELSE "IoError",
                  backed |-> moved]

BackupNext ==
    \/ InstanceWrites
    \/ BackupLogs

-----------------------------------------------------------------------------
(* Cache::delete_version, next to the calls of get_factorio and get_mod.   *)

(* the version of the engine destination, and one that was never fetched *)
DeleteArgs == {"engine", "unknown"}

NoDelete ==
    [version |-> "none", found |-> "none", fetching |-> FALSE,
     res |-> "none"]

DeleteIdle == del_last = NoDelete

(* if !dir.exists() { NotAllowed } else remove_dir_all(&dir) *)
DeleteVersion ==
    /\ UNCHANGED notDelete
    /\ \E v \in DeleteArgs :
          LET found == IF v \in Paths THEN disk[v] ELSE "absent"
          IN  /\ del_last' =
                    [version |-> v, found |-> found,
                     fetching |-> EntryOf(in_flight, v) # {},
                     res |-> IF Exists(found) THEN "Ok" ELSE "NotAllowed"]
              /\ disk' = IF Exists(found) THEN [disk EXCEPT ![v] = "absent"]
                         ELSE disk
    /\ UNCHANGED <<in_flight, rx, pc, tgt, res, ret_disk, role, fetch_of,
                   downloads, before, sent, got>>

DeleteNext ==
    \/ CacheNext
    \/ DeleteVersion

-----------------------------------------------------------------------------
(* Specifications *)

InitCache == CacheInit /\ ComposeIdle /\ InstanceIdle /\ RotateIdle /\ TailIdle /\ CredIdle /\ VersionIdle /\ PrepareIdle /\ ByteIdle /\ BackupIdle /\ DeleteIdle

SpecCache == InitCache /\ [][CacheNext]_vars

(***************************************************************************)
(* A follower waits in receiver.recv().await: the channel wakes its task   *)
(* on a send and on the drop of the last Sender, and the runtime polls a   *)
(* woken task.  Nothing is assumed of the leaders.                         *)
(***************************************************************************)
FollowerFairness ==
    \A c \in Callers :
        WF_vars(FollowerRecv(c)) /\ WF_vars(FollowerRecheck(c))

SpecCacheFair == SpecCache /\ FollowerFairness

InitCompose == CacheIdle /\ ComposeInit /\ InstanceIdle /\ RotateIdle /\ TailIdle /\ CredIdle /\ VersionIdle /\ PrepareIdle /\ ByteIdle /\ BackupIdle /\ DeleteIdle

SpecCompose == InitCompose /\ [][ComposeNext]_vars

InitInstance == CacheIdle /\ ComposeIdle /\ InstanceInit /\ RotateIdle /\ TailIdle /\ CredIdle /\ VersionIdle /\ PrepareIdle /\ ByteIdle /\ BackupIdle /\ DeleteIdle

SpecInstance == InitInstance /\ [][InstanceNext]_vars

(***************************************************************************)
(* The runtime keeps scheduling the tailer and the driver tasks; nothing   *)
(* is assumed of the child or of the caller.                               *)
(***************************************************************************)
TaskFairness ==
    /\ WF_vars(TailerStat)
    /\ WF_vars(TailerReadLine)
    /\ WF_vars(TailerPidCheck)
    /\ WF_vars(TailerTick)
    /\ WF_vars(DriverRecv)

SpecInstanceFair == SpecInstance /\ TaskFairness

(***************************************************************************)
(* Besides the two tasks, start() and the client's call in progress are    *)
(* polled to their end: each of their steps is taken once it can be.  The  *)
(* child, the making of calls and their cancellation are left free.        *)
(***************************************************************************)
RunFairness ==
    /\ TaskFairness
    /\ WF_vars(RunCreatePid) /\ WF_vars(RunWritePid)
    /\ WF_vars(OpCheck) /\ WF_vars(OpSet) /\ WF_vars(OpKill)
    /\ WF_vars(OpRcon) /\ WF_vars(OpWaitClosed) /\ WF_vars(OpGrace)
    /\ WF_vars(OpCleanup)

SpecRunFair == SpecInstance /\ RunFairness

InitRotate == CacheIdle /\ ComposeIdle /\ InstanceIdle /\ RotateInit /\ TailIdle /\ CredIdle /\ VersionIdle /\ PrepareIdle /\ ByteIdle /\ BackupIdle /\ DeleteIdle

SpecRotate == InitRotate /\ [][RotateNext]_vars

InitTail == CacheIdle /\ ComposeIdle /\ RotateIdle /\ TailInit /\ CredIdle /\ VersionIdle /\ PrepareIdle /\ ByteIdle /\ BackupIdle /\ DeleteIdle

SpecTail == InitTail /\ [][TailNext]_vars

SpecBurst == InitTail /\ [][BurstNext]_vars

InitCred ==
    CacheIdle /\ ComposeIdle /\ InstanceIdle /\ RotateIdle /\ TailIdle
        /\ CredInit /\ VersionIdle /\ PrepareIdle /\ ByteIdle /\ BackupIdle /\ DeleteIdle

SpecCred == InitCred /\ [][CredNext]_vars

InitVersion ==
    CacheIdle /\ ComposeIdle /\ InstanceIdle /\ RotateIdle /\ TailIdle
        /\ CredIdle /\ VersionInit /\ PrepareIdle /\ ByteIdle /\ BackupIdle /\ DeleteIdle

SpecVersion == InitVersion /\ [][VersionNext]_vars

InitPrepare ==
    CacheIdle /\ ComposeIdle /\ InstanceIdle /\ RotateIdle /\ TailIdle
        /\ CredIdle /\ VersionIdle /\ PrepareInit /\ ByteIdle /\ BackupIdle /\ DeleteIdle

SpecPrepare == InitPrepare /\ [][PrepareNext]_vars

InitAppend ==
    CacheIdle /\ ComposeIdle /\ InstanceIdle /\ RotateIdle /\ TailIdle
        /\ CredIdle /\ VersionIdle /\ PrepareIdle /\ ByteInit /\ BackupIdle /\ DeleteIdle

SpecAppend == InitAppend /\ [][ByteNext]_vars

InitBackup ==
    CacheIdle /\ ComposeIdle /\ InstanceIdle /\ RotateIdle /\ TailIdle
        /\ CredIdle /\ VersionIdle /\ PrepareIdle /\ ByteIdle /\ BackupInit
        /\ DeleteIdle

SpecBackup == InitBackup /\ [][BackupNext]_vars

SpecDelete == InitCache /\ [][DeleteNext]_vars

-----------------------------------------------------------------------------
(* Claims about the cache, checked under SpecCache.  Every artifact is     *)
(* initially absent.  Two calls overlap in time when neither had returned  *)
(* before the other ran its first statement.                               *)

Done(c) == pc[c] = "done"

(* C1: for an artifact that is initially absent, overlapping get calls
   start at most one network download of it, under every interleaving. *)
Overlap(a, b) == a \notin before[b] /\ b \notin before[a]

C1_AtMostOneDownload ==
    \A a, b \in Callers :
        (a # b /\ tgt[a] = tgt[b] /\ Overlap(a, b))
        => ~(downloads[a] /\ downloads[b])

(* C2: whenever a get call returns Ok(path), the artifact at that path is
   completely downloaded and extracted at that moment, also on the fast
   path while another call's fetch is in progress. *)
C2_OkMeansComplete ==
    \A c \in Callers : (Done(c) /\ res[c] = "Ok") => ret_disk[c] = "complete"

(* C3: after any get call returns an error, the destination path of the
   artifact does not exist on disk. *)
C3_ErrMeansAbsent ==
    \A c \in Callers : (Done(c) /\ res[c] \in Errors) => ret_disk[c] = "absent"

(* C4: all get calls that overlap one fetch observe the same outcome: all
   of them Ok or all of them an error; never one caller Ok while the fetch
   it overlapped ends in failure. *)
C4_SameOutcome ==
    \A a, b \in Callers :
        (/\ fetch_of[a] = b
         /\ Done(a) /\ Done(b)
         /\ res[a] # "Cancelled" /\ res[b] # "Cancelled")
        => (res[a] = "Ok" <=> res[b] = "Ok")

(* the leaders of path p that are between their insert-if-vacant and
   their return *)
ActiveLeaders(p) ==
    {c \in Callers : tgt[c] = p /\ role[c] = "leader" /\ pc[c] \in LeaderPcs}

(* C5: the InFlight map holds at most one entry per destination path; an
   entry for path P exists only while exactly one leader call for P is
   between its insert-if-vacant and its return (normal, error or
   cancellation); after a leader terminates its entry is gone. *)
C5_InFlightEntries ==
    /\ \A e1, e2 \in in_flight : e1.path = e2.path => e1 = e2
    /\ \A e \in in_flight : ActiveLeaders(e.path) = {e.chan}
    /\ \A p \in Paths : \A c \in ActiveLeaders(p) :
           [path |-> p, chan |-> c] \in in_flight
    /\ \A c \in Callers : Done(c) => \A e \in in_flight : e.chan # c

(* C5, witness: a leader has failed or was cancelled, and a later leader
   of the same path holds the entry now *)
C5_Witness ==
    \E c, d \in Callers :
        /\ c # d /\ tgt[c] = tgt[d]
        /\ role[c] = "leader" /\ Done(c) /\ res[c] \in Errors \cup {"Cancelled"}
        /\ d \in ActiveLeaders(tgt[d])
        /\ [path |-> tgt[d], chan |-> d] \in in_flight

(* C6: every follower that subscribed to a fetch's notifier receives
   exactly one notification message when that fetch terminates, on
   success and on failure; the leader sends at most one message. *)
C6_ExactlyOneNotification ==
    /\ \A c \in Callers : sent[c] <= 1
    /\ \A f \in Callers :
           (/\ role[f] = "follower"
            /\ Done(fetch_of[f])
            /\ res[fetch_of[f]] \in Errors \cup {"Ok"})
           => got[f] + rx[f].msgs = 1

-----------------------------------------------------------------------------
(* Claims about the composer, checked under SpecCompose *)

(* C7: preparing an instance while a supervised child of it is alive
   (factorio.pid present and its PID live) fails with AlreadyRunning
   before anything is changed, so the directory of a running instance is
   never removed and no two children are alive on one instance directory. *)
C7_PrepareRefusedWhileRunning ==
    /\ last_prepare.live =>
           (last_prepare.result = "AlreadyRunning" /\ ~last_prepare.removed)
    /\ Cardinality(alive) <= 1

(* C8: check_running fails with AlreadyRunning if and only if factorio.pid
   exists in the instance directory and names a live process; it returns
   Ok when the directory is absent, when the pidfile is absent and when
   the pidfile names a dead process. *)
C8_CheckRunningContract ==
    last_check.result # "none" =>
        /\ last_check.result = "AlreadyRunning"
               <=> (last_check.dir /\ last_check.pf.exists /\ last_check.live)
        /\ (~last_check.dir \/ ~last_check.pf.exists
                \/ (last_check.pf.pid \in Pids /\ ~last_check.live))
               => last_check.result = "Ok"

-----------------------------------------------------------------------------
(* Claims about the supervised run, checked under SpecInstance.            *)

(***************************************************************************)
(* C9: whenever the status held in the watch channel is Running,           *)
(* factorio.pid exists and names a live process, also between the child's  *)
(* death and the tailer's detection of it.                                 *)
(***************************************************************************)
C9_RunningMeansLive ==
    status = "Running" => (pidf = "pid" /\ ProcAlive(proc))

(* the step of a call that compares the status with Running *)
CheckStep == op.pc = "check" /\ op' # op

(***************************************************************************)
(* C10: kill(), stop() and send_command() called while the status is not   *)
(* Running return NotAllowed, leave the status as it is, send no OS kill   *)
(* and open no RCON connection; called while the status is Running, kill() *)
(* and stop() set the status to Stopping before anything else.             *)
(***************************************************************************)
C10_NotAllowedUnlessRunning ==
    [][ /\ (CheckStep /\ status # "Running") =>
              /\ op' = NoOp
              /\ opres' = "NotAllowed"
              /\ status' = status
              /\ oskills' = oskills
              /\ rcons' = rcons
        /\ (CheckStep /\ status = "Running" /\ op.name # "send_command") =>
              /\ op'.pc = "set"
              /\ status' = status
              /\ oskills' = oskills
              /\ rcons' = rcons
        /\ (op.pc = "set" /\ op' # op) =>
              /\ status' = "Stopping"
              /\ op'.pc \in {"kill", "rcon"}
              /\ oskills' = oskills
              /\ rcons' = rcons
              /\ proc' = proc
        /\ op.pc \in {"none", "check", "set"} =>
              /\ oskills' = oskills
              /\ rcons' = rcons
      ]_vars

(* a call was refused while an earlier one had left the status at Stopping *)
C10_Witness ==
    /\ opres = "NotAllowed"
    /\ status = "Stopping"
    /\ op = NoOp
    /\ nops = 2
    /\ oskills + rcons = 1

(* stop() has returned Ok *)
StopReturnedOk == last_call.name = "stop" /\ opres = "Ok"

(***************************************************************************)
(* C11: a stop() issued while Running takes the status through Stopping    *)
(* and Closed to Stopped: once stop() has returned Ok the status is never  *)
(* Running again and eventually becomes Stopped.                           *)
(***************************************************************************)
C11_StopReachesStopped ==
    [](StopReturnedOk => (status # "Running" /\ <>(status = "Stopped")))

(***************************************************************************)
(* C12: once stop() or kill() has returned Ok, its cleanup done, the file  *)
(* factorio.pid is absent from the instance directory.                     *)
(***************************************************************************)
C12_PidFileAbsentAfterCleanup ==
    (last_call.name \in {"stop", "kill"} /\ opres = "Ok") => pidf = "none"

(***************************************************************************)
(* C13: a stop() called after the child has crashed, and admitted because  *)
(* the status is still Running, returns Ok, and no OS kill is sent.        *)
(***************************************************************************)
C13_StopAfterCrashSucceeds ==
    (/\ last_call.name = "stop"
     /\ last_call.crashed
     /\ opres \notin {"NotAllowed", "Cancelled"})
        => (opres = "Ok" /\ oskills = 0)

-----------------------------------------------------------------------------
(* Claims about the data store, checked under SpecRotate.                  *)

(* get_and_rotate_file has just returned Ok for a non-empty base file *)
Rotated == rpc = "rotated" /\ NonEmpty(rpre.base)

(* the generations below k all existed when the call began *)
ChainBelow(k) == \A j \in 0..(k - 1) : rpre.dir[j] # "absent"

(***************************************************************************)
(* C14: after get_and_rotate_file with amount N on a non-empty base file   *)
(* the base file is absent, file.0 holds what the base held, every file.k  *)
(* with 0 < k <= N holds what file.(k-1) held, and no file with an index   *)
(* above N exists.                                                         *)
(***************************************************************************)
C14_RotationShiftsAll ==
    Rotated =>
        /\ rbase = "absent"
        /\ rdir[0] = rpre.base
        /\ \A k \in 1..RotateAmount : rdir[k] = rpre.dir[k - 1]
        /\ \A k \in Indices : k > RotateAmount => rdir[k] = "absent"

(***************************************************************************)
(* C14, amended: as above, but file.k holds what file.(k-1) held only when *)
(* file.0 .. file.(k-1) all existed; the generations above the first       *)
(* missing one are left as they were.                                      *)
(***************************************************************************)
C14_RotationShiftsChain ==
    Rotated =>
        /\ rbase = "absent"
        /\ rdir[0] = rpre.base
        /\ \A k \in 1..RotateAmount :
              rdir[k] = IF ChainBelow(k) THEN rpre.dir[k - 1]
                        ELSE rpre.dir[k]
        /\ \A k \in Indices : k > RotateAmount => rdir[k] = "absent"

(* a full set of generations has been rotated, the oldest one dropped *)
C14_Witness ==
    /\ Rotated
    /\ \A k \in 0..RotateAmount : rpre.dir[k] # "absent"
    /\ rpre.dir[RotateAmount] # rpre.dir[RotateAmount - 1]
    /\ rdir[0] # rdir[1]

-----------------------------------------------------------------------------
(* Claims about the tailer, checked under SpecTail.                        *)

(* how often the tailer has sent the line *)
Count(seq, x) == Cardinality({i \in 1..Len(seq) : seq[i] = x})

(* the tailer looks at the log and finds nothing new in it *)
FindsNothingNew == tpc = "stat" /\ tpc' = "pid"

(***************************************************************************)
(* C15: after a truncation the tailer reads the log again from offset 0:   *)
(* when it finds nothing new in the log, it has sent every line that the   *)
(* log holds since the truncation exactly once, whatever the new size is   *)
(* relative to last_size and file_pos.                                     *)
(***************************************************************************)
C15_TruncationRereadsAll ==
    [][(FindsNothingNew /\ session > 1) =>
           \A k \in 1..Len(log) : Count(emitted, log[k]) = 1]_vars

-----------------------------------------------------------------------------
(* Claims about the credential manager, checked under SpecCred.            *)

(***************************************************************************)
(* C16: save() succeeds in every credential state, present or absent, and  *)
(* a load() of the file it leaves yields the same state; in the absent     *)
(* state it leaves no file, whether or not there was one.                  *)
(***************************************************************************)
C16_SaveLoadRoundTrip ==
    cred_op = "save" =>
        /\ cred_res = "Ok"
        /\ Load(save_file).res = "Ok"
        /\ Load(save_file).credentials = credentials
        /\ (~credentials.some => ~save_file.exists)

-----------------------------------------------------------------------------
(* Claims about Version, checked under SpecVersion.                        *)

(* a part written as fmt writes it: digits only, no leading zero *)
Canonical(part) ==
    /\ part # << >>
    /\ \A i \in 1..Len(part) : IsDigit(part[i])
    /\ Len(part) > 1 => part[1] # "0"

(* a part that is an integer of at most 16 bits, however it is written *)
IntPart(part) ==
    LET ds == IF part # << >> /\ Head(part) = "+" THEN Tail(part) ELSE part
    IN  /\ ds # << >>
        /\ \A i \in 1..Len(ds) : IsDigit(ds[i])
        /\ DigitsValue(ds, 0) >= 0

ThreeIntParts(s) ==
    /\ Len(Split(s)) = 3
    /\ \A i \in 1..3 : IntPart(Split(s)[i])

(***************************************************************************)
(* C17: formatting the Version parsed from any accepted string gives the   *)
(* string back, parsing the format of any Version gives the Version back,  *)
(* and parsing fails with InvalidVersionFormat unless the string has       *)
(* exactly three dot-separated integer parts of at most 16 bits.           *)
(***************************************************************************)
C17_VersionRoundTrip ==
    vpc = "done" =>
        /\ vver.res = "Ok" => vout = vstr
        /\ vsrc # << >> => (vver.res = "Ok" /\ vver.version = vsrc)
        /\ ~ThreeIntParts(vstr) => vver.res = "InvalidVersionFormat"

(***************************************************************************)
(* C17, amended: the accepted string comes back from the format when its   *)
(* parts are written without '+' and without leading zeros; the rest as    *)
(* above.                                                                  *)
(***************************************************************************)
C17_CanonicalRoundTrip ==
    vpc = "done" =>
        /\ (vver.res = "Ok" /\ \A i \in 1..3 : Canonical(Split(vstr)[i]))
              => vout = vstr
        /\ vsrc # << >> => (vver.res = "Ok" /\ vver.version = vsrc)
        /\ ~ThreeIntParts(vstr) => vver.res = "InvalidVersionFormat"
        /\ ThreeIntParts(vstr) => vver.res = "Ok"

(* a string with a part of the largest value has made the round trip *)
C17_Witness ==
    /\ vpc = "done"
    /\ vsrc = << >>
    /\ vver.res = "Ok"
    /\ vver.version[2] = U16Max
    /\ vout = vstr

-----------------------------------------------------------------------------
(* Claims about the composition, checked under SpecPrepare.                *)

(* the entries read back from the text of mod-list.json *)
ReadModList(text) ==
    [i \in 1..((Len(text) - 5) \div 6) |->
        [name |-> text[6 * i], enabled |-> text[6 * i + 2] = "true"]]

(* a composition has written mod-list.json *)
ModListWritten == pdir.exists /\ pdir.mod_list # << >>

(* 2.0.0 or later, by major, then minor, then patch *)
AtLeast200(v) == v[1] >= 2

BaseModNames == <<"elevated-rails", "quality", "space-age">>

(***************************************************************************)
(* C18: the mod list begins with base, enabled whatever BaseMods.base is;  *)
(* elevated-rails, quality and space-age follow it, in that order, exactly *)
(* when the engine version is 2.0.0 or later; then come the declared mods  *)
(* in the order of their declaration, each enabled.                        *)
(***************************************************************************)
C18_ModListShape ==
    ModListWritten =>
        LET l == ReadModList(pdir.mod_list)
            off == IF AtLeast200(psettings.factorio_version) THEN 4 ELSE 1
        IN  /\ pdir.mod_list = ModListJson(l)
            /\ Len(l) = off + Len(psettings.mods)
            /\ l[1] = Entry("base", TRUE)
            /\ AtLeast200(psettings.factorio_version) =>
                  \A i \in 1..3 : l[i + 1].name = BaseModNames[i]
            /\ \A i \in 1..Len(psettings.mods) :
                  l[off + i] = Entry(psettings.mods[i], TRUE)

(* a 2.0.0 list with two mods and base switched off in the settings *)
C18_Witness ==
    /\ ModListWritten
    /\ psettings.factorio_version = SpaceAgeVersion
    /\ ~psettings.base_mods.base
    /\ Len(psettings.mods) = 2
    /\ plast.result = "Ok"

(***************************************************************************)
(* C19: for an engine of 2.0.0 or later each base-mod entry carries its    *)
(* own flag: elevated-rails that of elevated_rails, quality that of        *)
(* quality, space-age that of space_age.                                   *)
(***************************************************************************)
C19_BaseModFlags ==
    (ModListWritten /\ AtLeast200(psettings.factorio_version)) =>
        LET l == ReadModList(pdir.mod_list)
        IN  /\ l[2] = Entry("elevated-rails",
                            psettings.base_mods.elevated_rails)
            /\ l[3] = Entry("quality", psettings.base_mods.quality)
            /\ l[4] = Entry("space-age", psettings.base_mods.space_age)

(***************************************************************************)
(* C20: a composition never fails at the removal of the old directory,     *)
(* absent, complete or partly built as that may be, and every successful   *)
(* composition leaves the same mod-list.json and the same links as the     *)
(* first one.                                                              *)
(***************************************************************************)
C20_ComposeIdempotent ==
    /\ plast.failed_at # "remove"
    /\ (plast.result = "Ok" /\ pfirst.exists) => pdir = pfirst

-----------------------------------------------------------------------------
(* More claims about the cache, checked under SpecCache and, for the one   *)
(* about termination, SpecCacheFair.                                       *)

(* the step in which c subscribes to the notifier of its path *)
Subscribes(c) == pc[c] = "lookup" /\ pc'[c] = "recv"

(***************************************************************************)
(* C21: a follower that subscribes to the notifier after the leader has    *)
(* sent the notification and before the leader's entry is removed has the  *)
(* notification to receive (and so goes on to return Ok(path)).            *)
(***************************************************************************)
C21_LateSubscriberNotified ==
    [][\A c \in Callers :
          (Subscribes(c) /\ sent[LeaderOf(in_flight, tgt[c])] > 0)
          => rx'[c].msgs > 0]_vars

(***************************************************************************)
(* C22: no follower waits for ever: once the leader of a fetch has         *)
(* terminated (Ok, an error, a cancellation or a panic, which drops the    *)
(* guard as a cancellation does), every follower subscribed to that fetch  *)
(* eventually leaves its get call.                                         *)
(***************************************************************************)
C22_FollowersReturn ==
    \A c \in Callers :
        (role[c] = "follower" /\ Done(fetch_of[c])) ~> Done(c)

(* C22, witness: a follower has returned after its leader was cancelled *)
C22_Witness ==
    \E c \in Callers :
        /\ role[c] = "follower" /\ Done(c) /\ res[c] # "Cancelled"
        /\ Done(fetch_of[c]) /\ res[fetch_of[c]] = "Cancelled"

(***************************************************************************)
(* C23: a follower returns Ok(path) when the destination exists as it      *)
(* returns, and the InFlight error, no other kind of error, when the       *)
(* leader's fetch failed or was cancelled and the destination is absent.   *)
(***************************************************************************)
C23_FollowerOutcome ==
    \A c \in Callers :
        (role[c] = "follower" /\ Done(c) /\ res[c] # "Cancelled")
        => /\ Exists(ret_disk[c]) => res[c] = "Ok"
           /\ (~Exists(ret_disk[c]) /\ Done(fetch_of[c])
                 /\ res[fetch_of[c]] # "Ok")
              => res[c] = "InFlightError"

(***************************************************************************)
(* C24: a get call cancelled while it is the leader leaves what a failed   *)
(* fetch is meant to leave: its InFlight entry is removed and no partly    *)
(* written destination is on disk as the call ends.                        *)
(***************************************************************************)
C24_CancelledLeaderLeavesNothing ==
    \A c \in Callers :
        (role[c] = "leader" /\ Done(c) /\ res[c] = "Cancelled")
        => /\ \A e \in in_flight : e.chan # c
           /\ ret_disk[c] # "partial"

-----------------------------------------------------------------------------
(* More claims about one supervised run, checked under SpecInstance: one   *)
(* client, whose calls of kill, stop and send_command follow one another.  *)

(* the step in which kill() or stop() writes Stopping *)
WritesStopping == op.pc = "set" /\ op'.pc # "set"

(* the driver has received the sentinel and written Stopped *)
DriverWroteStopped == dpc = "done"

(***************************************************************************)
(* C25: with a single caller of kill() and stop(), the check-and-set       *)
(* loses no transition of the driver: the value that a write of Stopping   *)
(* replaces is Running, and once the driver has written Stopped the status *)
(* stays Stopped.                                                          *)
(***************************************************************************)
C25_NoLostTransition ==
    [][/\ WritesStopping => status = "Running"
       /\ (DriverWroteStopped /\ status = "Stopped") => status' = "Stopped"
      ]_vars

(***************************************************************************)
(* C26, checked under SpecBurst: lines that the driver misses are not      *)
(* fatal: when the tailer has sent more lines than the log channel holds   *)
(* before the driver took them, the driver still runs (and so still        *)
(* handles a later sentinel, InGame or Closed line).                       *)
(***************************************************************************)
C26_MissedLinesNotFatal == lagged => dpc # "failed"

(* the call in progress is a kill() that follows a stop() which had set
   Stopping and then was cancelled or returned an error *)
KillAfterFailedStop ==
    /\ op.name = "kill"
    /\ last_call.name = "stop"
    /\ opres \in {"Cancelled", "RconError", "IoError"}

(***************************************************************************)
(* C27: after a stop() that was cancelled in its wait, or that returned an *)
(* error after it had set Stopping, a following kill() is accepted, that   *)
(* is, it does not return NotAllowed (it goes on to kill the child).       *)
(***************************************************************************)
C27_KillAfterFailedStop ==
    [][KillAfterFailedStop => opres' # "NotAllowed"]_vars

(* the step is a run of cleanup() *)
CleanupRuns == cleanups' > cleanups

(* the step sends an OS kill to the child *)
OsKillSent == oskills' > oskills

(* the tailer has sent the Closed line, without which no Closed status *)
ClosedSeen == \E i \in 1..Len(emitted) : emitted[i] = ClosedLine

(***************************************************************************)
(* C28: cleanup() runs only once the child has exited; in stop() that is   *)
(* after /quit was sent over RCON and Closed was observed.  stop() sends   *)
(* an OS kill only in its grace step, after Closed was observed.  When     *)
(* kill() or stop() returns Ok the child is not alive.                     *)
(***************************************************************************)
C28_CleanupAfterExit ==
    [][/\ CleanupRuns => ~ProcAlive(proc)
       /\ (CleanupRuns /\ op.name = "stop") => (rcons > 0 /\ ClosedSeen)
       /\ (OsKillSent /\ op.name = "stop") => (op.pc = "grace" /\ ClosedSeen)
       /\ (op.name \in {"kill", "stop"} /\ op' = NoOp /\ opres' = "Ok")
          => ~ProcAlive(proc')
      ]_vars

(* C28, witness: a stop() that had to kill the child has returned Ok *)
C28_Witness ==
    /\ last_call.name = "stop" /\ op = NoOp /\ opres = "Ok"
    /\ oskills = 1 /\ cleanups = 1

(* the driver takes a line from the channel *)
DriverTakes == dpc = "run" /\ chan # << >> /\ chan' = Tail(chan)

(***************************************************************************)
(* C29: the driver sets Stopped on the sentinel and ends; it sets Running  *)
(* on the InGame line and Closed on the Closed line; any other line leaves *)
(* the status as it is; once it has ended it writes the status no more:    *)
(* the only other writer is the Stopping of kill() and stop().             *)
(***************************************************************************)
C29_DriverTransitions ==
    [][/\ DriverTakes =>
            /\ Head(chan) = Sentinel => (status' = "Stopped" /\ dpc' = "done")
            /\ Head(chan) = InGameLine => status' = "Running"
            /\ Head(chan) = ClosedLine => status' = "Closed"
            /\ Head(chan) = OtherLine => status' = status
            /\ Head(chan) # Sentinel => dpc' = "run"
       /\ dpc = "done" => dpc' = "done"
       /\ (dpc \in {"done", "failed"} /\ status' # status) => WritesStopping
      ]_vars

(* C29, witness: the driver has gone through Running, Closed and Stopped,
   past a line that changed nothing, and has ended *)
C29_Witness ==
    /\ dpc = "done" /\ status = "Stopped"
    /\ \A l \in {InGameLine, OtherLine, ClosedLine, Sentinel} :
          \E i \in 1..Len(emitted) : emitted[i] = l
    /\ chan = << >>

-----------------------------------------------------------------------------
(* A claim about the tailer on an append-only log, checked under           *)
(* SpecAppend.                                                             *)

(* the complete lines of the file f, newline taken off, in file order *)
RECURSIVE CompleteLines(_)
CompleteLines(f) ==
    LET nls == {i \in 1..Len(f) : f[i] = NL}
    IN  IF nls = {} THEN << >>
        ELSE <<SubSeq(f, 1, Min(nls) - 1)>>
             \o CompleteLines(SubSeq(f, Min(nls) + 1, Len(f)))

IsPrefix(u, v) == Len(u) <= Len(v) /\ u = SubSeq(v, 1, Len(u))

(***************************************************************************)
(* C30: while the log is only appended to, what the tailer has sent is at  *)
(* every moment the first complete lines of the file, each once and in     *)
(* file order, however the appends fall between the tailer's steps.        *)
(***************************************************************************)
C30_EveryLineOnceInOrder == IsPrefix(sent_lines, CompleteLines(bytes))

-----------------------------------------------------------------------------
(* Claims about partial lines (SpecAppend) and about the end of a run      *)
(* (SpecInstance, SpecRunFair).                                            *)

(***************************************************************************)
(* C31: the tailer sends no partial line: file_pos is never moved past     *)
(* bytes that no newline ends, so it always stands at the start of the     *)
(* file or just after a newline.                                           *)
(***************************************************************************)
C31_NoPartialLine == byte_pos = 0 \/ bytes[byte_pos] = NL

(***************************************************************************)
(* C32: once the child is dead, the tailer eventually sends the sentinel   *)
(* and ends, and the status becomes Stopped, also when the log does not    *)
(* exist and when the log keeps growing.                                   *)
(***************************************************************************)
C32_DeathReported ==
    (proc = "dead") ~> (tpc = "done" /\ status = "Stopped")

(* the step in which the tailer sends the sentinel *)
SendsSentinel ==
    /\ Len(emitted') = Len(emitted) + 1
    /\ emitted'[Len(emitted')] = Sentinel

(***************************************************************************)
(* C33: the tailer sends the sentinel only from its pid check, having read *)
(* a pidfile whose PID is not in the process table; it ends with that      *)
(* step, so the sentinel is sent at most once and is the last line sent.   *)
(***************************************************************************)
C33_SentinelOnceAndLast ==
    [][/\ SendsSentinel =>
            (tpc = "pid" /\ pidf = "pid" /\ ~ProcAlive(proc) /\ tpc' = "done")
       /\ tpc = "done" => (tpc' = "done" /\ emitted' = emitted)
       /\ Count(emitted', Sentinel) <= 1
       /\ Count(emitted', Sentinel) = 1
          => emitted'[Len(emitted')] = Sentinel
      ]_vars

(* C33, witness: the sentinel has been sent after the lines of the log *)
C33_Witness ==
    /\ tpc = "done"
    /\ Len(emitted) >= 2
    /\ emitted[Len(emitted)] = Sentinel
    /\ emitted[1] = InGameLine

(* stop() has set Stopping and has not returned *)
StopPending ==
    op.name = "stop" /\ op.pc \in {"rcon", "wait", "grace", "cleanup"}

(***************************************************************************)
(* C35: stop() ends: when the child has exited after stop() set Stopping,  *)
(* stop() eventually returns, also when the driver never publishes Closed. *)
(***************************************************************************)
C35_StopTerminates ==
    (StopPending /\ proc = "dead") ~> (op.name # "stop")

(* the step in which the tailer reads the pidfile *)
ReadsPidFile == tpc = "pid" /\ tpc' # "pid"

(***************************************************************************)
(* C37: the tailer never reads a pidfile that start() has created and not  *)
(* yet written, so it does not end on a parse error during startup.        *)
(***************************************************************************)
C37_PidFileReadWhole == [][ReadsPidFile => pidf # "empty"]_vars

(* the driver has taken the InGame line from the channel *)
InGameProcessed ==
    /\ Count(emitted, InGameLine) > 0
    /\ \A i \in 1..Len(chan) : chan[i] # InGameLine

-----------------------------------------------------------------------------
(* A further claim about the rotation, checked under SpecRotate.           *)

(* how many of the base file and its generations hold the content x *)
Holding(b, d, x) ==
    Cardinality({k \in Indices : d[k] = x}) + (IF b = x THEN 1 ELSE 0)

(* what a step takes away of the content x *)
Lost(x) == Holding(rbase, rdir, x) - Holding(rbase', rdir', x)

(* a step of get_and_rotate_file that moves or removes a file *)
RotationStep == rpc = "idle" /\ <<rbase, rdir>>' # <<rbase, rdir>>

(***************************************************************************)
(* C38: a rotation overwrites no generation: every content held before it  *)
(* is held after it, but for the one of file.N, which is discarded when    *)
(* the generations 0 .. N all exist; this also with gaps among the         *)
(* generations and when the rotation fails part of the way.                *)
(***************************************************************************)
C38_NothingOverwritten ==
    [][RotationStep =>
          /\ \A x \in Contents :
                /\ Lost(x) \in {0, 1}
                /\ Lost(x) = 1 =>
                      /\ rdir[RotateAmount] = x
                      /\ \A k \in 0..RotateAmount : rdir[k] # "absent"
          /\ Cardinality({x \in Contents : Lost(x) = 1}) <= 1
      ]_vars

(* C38, witness: generations with a gap among them have been rotated *)
C38_Witness ==
    /\ rpc = "rotated"
    /\ NonEmpty(rpre.base)
    /\ rpre.dir[0] # "absent" /\ rpre.dir[1] # "absent"
    /\ rpre.dir[2] = "absent" /\ rpre.dir[3] # "absent"
    /\ rdir[2] = rpre.dir[1] /\ rdir[3] = rpre.dir[3]

-----------------------------------------------------------------------------
(* Claims about the backup (SpecBackup) and about delete_version           *)
(* (SpecDelete).                                                           *)

C36_DeleteSparesFetch ==
    /\ del_last.res = "Ok"
       => (del_last.found = "complete" /\ ~del_last.fetching)
    /\ del_last.res = "NotAllowed" => del_last.found # "complete"

====
